---- MODULE Spec2Model ----
(***************************************************************************)
(* Context Marketplace: the Context Store (app/services.py,                *)
(* ContextService), the default document generator, the HTTP handlers of   *)
(* app/main.py that gate and drive it, the read-only tool-calling adapter   *)
(* (app/mcp_server.py) and the publish workflow                             *)
(* (GitHubService.create_context_pr).                                       *)
(*                                                                         *)
(* Modelling conventions                                                    *)
(*  - A Python None is the string None.                                     *)
(*  - A text (file content, pull-request body) is a sequence of lines and   *)
(*    a line is a tuple of string fragments, so that two texts are equal    *)
(*    exactly when the generated strings are.                               *)
(*  - datetime.now() reads the variable now.  The clock may tick once       *)
(*    while a handler runs: a handler that reads the clock n times takes a  *)
(*    parameter k: reads 1..k see now and the later ones see now+1; k is    *)
(*    NoTick when the clock does not tick while the handler runs.           *)
(*  - An await of an upstream call ends the atomic step of a handler; the   *)
(*    response arrives in a later step with one of the outcomes "ok",       *)
(*    "status" (a non-success status code) or "error" (a transport          *)
(*    exception raised by the client).                                      *)
(***************************************************************************)
EXTENDS Integers, Sequences, FiniteSets, TLC

VARIABLES
    contexts,   \* ContextService.contexts: id -> Context
    disk,       \* the contexts/ directory: id -> [metadata, files]
    usedIds,    \* every id uuid4 has returned so far
    now,        \* the clock read by datetime.now()
    created,    \* what ContextService.create_context returned, call by call
    resp,       \* the response of the last request that completed
    creating,   \* create-context requests suspended at an await
    publishing, \* publish requests suspended at an await
    calls,      \* upstream calls each publish request issued, in order
    remote,     \* the external repository: branches, files, pull requests
    nreq        \* requests received so far

vars == <<contexts, disk, usedIds, now, created, resp, creating, publishing,
          calls, remote, nreq>>

----------------------------------------------------------------------------
(* Bounds and input domains *)

MaxRequests == 2
MaxContexts == 2
MaxTime == 2
TicksPerSecond == 2

None == "None"

Users == {1, 2}

Login(u) == IF u = 1 THEN "alice" ELSE "bob"

ContextNames == {"My Ctx", "my-ctx"}

Descriptions == {None, "about"}

Min(a, b) == IF a < b THEN a ELSE b

Range(s) == {s[i] : i \in 1..Len(s)}

----------------------------------------------------------------------------
(* Texts *)

Line1(a) == <<a>>

CustomContents == {<< <<"x">> >>, << <<"y">> >>}

FileTypes == {"stack", "business", "people", "guidelines", "custom"}

\* sorted() orders strings by code point: upper case before lower case
CodePointOrder == <<"Go", "Python", "jq">>

Languages == Range(CodePointOrder)

Sorted(langs) == SelectSeq(CodePointOrder, LAMBDA l : l \in langs)

\* str.startswith(('http://', 'https://'))
HasScheme(w) == w \in {"http://c.example", "https://d.example"}

\* the truth value Python gives an Optional[str]
Truthy(v) == v \notin {None, ""}

----------------------------------------------------------------------------
(* The external repository as the upstream API describes it *)

RepoUrl == "https://github.com/o/r"

\* re.search(r'github\.com[:/]([^/]+)/([^/]+?)(?:\.git)?/?$', repo_url)
ParseRepoUrl(url) ==
    CASE url = "https://github.com/o/r"      -> <<"o", "r">>
      [] url = "https://github.com/o/r.git"  -> <<"o", "r">>
      [] url = "https://github.com/o/r/"     -> <<"o", "r">>
      [] OTHER                               -> None

RequestUrls == {None, "https://github.com/o/r", "https://github.com/o/r.git",
                "github.com"}

\* GitHubRepo(...) built from the repository response and the language map
GitHubRepo(desc, langs) ==
    [owner |-> "o", name |-> "r", full_name |-> "o/r", description |-> desc,
     url |-> RepoUrl, clone_url |-> "https://github.com/o/r.git",
     default_branch |-> "main", language |-> None, languages |-> langs]

RepoDescriptions == {None, "a repo"}

LanguageMaps == {{}, {"Python", "Go"}}

GitHubContributor(login, name, website, hireable) ==
    [login |-> login, name |-> name, email |-> None, bio |-> None,
     pronouns |-> None, company |-> None, website |-> website,
     location |-> None, twitter_username |-> None, hireable |-> hireable,
     selected |-> FALSE]

Carol == GitHubContributor("carol", "Carol", "c.example", "False")

Dave == GitHubContributor("dave", None, None, "True")

\* what the contributors endpoint lists, already cut to the first ten
ContributorLists == {<<>>, <<Carol, Dave>>}

----------------------------------------------------------------------------
(* app/models.py: Context and ContextFile.  An Optional[GitHubRepo] is a    *)
(* sequence of at most one descriptor.                                      *)

NoRepo == <<>>

\* Context(id=..., name=..., ...): created_at and updated_at are two
\* default factories, each its own call of datetime.now()
Context(id, user_id, request, t1, t2) ==
    [id |-> id, name |-> request.name, description |-> request.description,
     owner_id |-> user_id, owner_login |-> Login(user_id),
     github_repo |-> NoRepo, files |-> <<>>, contributors |-> <<>>,
     is_public |-> request.is_public, created_at |-> t1, updated_at |-> t2]

\* ContextFile(...) with updated_at declared before created_at
ContextFileSwapped(name, file_type, content, t1, t2) ==
    [name |-> name, file_type |-> file_type, content |-> content,
     created_at |-> t2, updated_at |-> t1]

\* ContextFile(name=..., file_type=..., content=...): the two default
\* factories run in the order of the fields
ContextFile(name, file_type, content, t1, t2) ==
    [name |-> name, file_type |-> file_type, content |-> content,
     created_at |-> t1, updated_at |-> t2]

CreateContextRequests ==
    [name : ContextNames, description : Descriptions,
     github_repo_url : RequestUrls, is_public : BOOLEAN]

FileNames(c) == {c.files[i].name : i \in 1..Len(c.files)}

HasFile(c, name) == name \in FileNames(c)

FileNamed(c, name) ==
    c.files[CHOOSE i \in 1..Len(c.files) : c.files[i].name = name]

----------------------------------------------------------------------------
(* ContextService: the operations on one Context, with the clock values     *)
(* they read passed in.                                                     *)

\* the mutation of add_file_to_context, lines 353-363, that keeps the old file
AddFileKeepingOld(c, name, file_type, content, t1, t2, t3) ==
    [c EXCEPT !.files = Append(@, ContextFile(name, file_type, content, t1, t2)),
              !.updated_at = t3]

\* add_file_to_context, lines 353-363
AddFile(c, name, file_type, content, t1, t2, t3) ==
    [c EXCEPT !.files = Append(SelectSeq(@, LAMBDA f : f.name # name),
                               ContextFile(name, file_type, content, t1, t2)),
              !.updated_at = t3]

\* update_context_file done as add_file_to_context does: the file is made
\* anew and moved to the end
UpdateFileByReplacing(c, name, content, t1, t2) ==
    IF ~HasFile(c, name) THEN c
    ELSE AddFile(c, name, FileNamed(c, name).file_type, content, t1, t1, t2)

\* update_context_file, lines 374-384: the first file of that name
UpdateFile(c, name, content, t1, t2) ==
    IF ~HasFile(c, name) THEN c
    ELSE LET i == CHOOSE j \in 1..Len(c.files) :
                      /\ c.files[j].name = name
                      /\ \A h \in 1..(j - 1) : c.files[h].name # name
         IN [c EXCEPT !.files[i].content = content,
                      !.files[i].updated_at = t1,
                      !.updated_at = t2]

\* remove_file_from_context with the time stamp set whatever the count
RemoveFileBumping(c, name, t) ==
    [c EXCEPT !.files = SelectSeq(@, LAMBDA f : f.name # name),
              !.updated_at = t]

\* remove_file_from_context, lines 392-400
RemoveFile(c, name, t) ==
    IF ~HasFile(c, name) THEN c
    ELSE [c EXCEPT !.files = SelectSeq(@, LAMBDA f : f.name # name),
                   !.updated_at = t]

\* remove_file_from_context on the store map: no context of that id, False
RemoveFileFromContext(cs, id, name, t) ==
    IF id \notin DOMAIN cs THEN cs
    ELSE [cs EXCEPT ![id] = RemoveFile(cs[id], name, t)]

\* update_context_file on the store map: no context of that id, None
UpdateFileOfContext(cs, id, name, content, t1, t2) ==
    IF id \notin DOMAIN cs THEN cs
    ELSE [cs EXCEPT ![id] = UpdateFile(cs[id], name, content, t1, t2)]

\* update_context_file returns the file and not None
Updates(cs, id, name) == id \in DOMAIN cs /\ HasFile(cs[id], name)

\* what delete_context returns, line 341
Deletes(cs, id) == id \in DOMAIN cs

\* what remove_file_from_context returns
Removes(cs, id, name) == id \in DOMAIN cs /\ HasFile(cs[id], name)

\* update_context with line 333 taking the time the context was made
UpdateFieldsStale(c, request, t) ==
    [c EXCEPT !.name = IF request.name # None THEN request.name ELSE @,
              !.description = IF request.description # None
                              THEN request.description ELSE @,
              !.is_public = IF request.is_public # None
                            THEN request.is_public = "True" ELSE @,
              !.updated_at = c.created_at]

\* update_context without the tests of lines 327, 329 and 331
UpdateFieldsAll(c, request, t) ==
    [c EXCEPT !.name = request.name,
              !.description = request.description,
              !.is_public = request.is_public = "True",
              !.updated_at = t]

\* update_context, lines 327-334: a field left out of the request is None
UpdateFields(c, request, t) ==
    [c EXCEPT !.name = IF request.name # None THEN request.name ELSE @,
              !.description = IF request.description # None
                              THEN request.description ELSE @,
              !.is_public = IF request.is_public # None
                            THEN request.is_public = "True" ELSE @,
              !.updated_at = t]

UpdateContextRequests ==
    [name : {None, "my-ctx"}, description : {None}, is_public : {None, "True", "False"}]

\* set_context_repo, lines 408-409
SetRepo(c, repo, t) == [c EXCEPT !.github_repo = <<repo>>, !.updated_at = t]

\* set_context_contributors, lines 420-421
SetContributors(c, contributors, t) ==
    [c EXCEPT !.contributors = contributors, !.updated_at = t]

\* _save_context: metadata.json is rewritten, every current file is written
\* under files/, and nothing is removed from files/
SaveContext(d, c) ==
    LET old == IF c.id \in DOMAIN d THEN d[c.id].files
               ELSE [n \in {} |-> <<>>]
        names == DOMAIN old \cup FileNames(c)
        entry == [metadata |-> c,
                  files |-> [n \in names |->
                               IF HasFile(c, n)
                               THEN c.files[CHOOSE i \in 1..Len(c.files) :
                                      /\ c.files[i].name = n
                                      /\ \A h \in (i + 1)..Len(c.files) :
                                            c.files[h].name # n].content
                               ELSE old[n]]]
    IN [i \in DOMAIN d \cup {c.id} |-> IF i = c.id THEN entry ELSE d[i]]

\* _delete_context_files that leaves the directory where it is
DeleteContextFilesKept(d, id) == d

\* _delete_context_files: shutil.rmtree of the context's directory
DeleteContextFiles(d, id) == [i \in DOMAIN d \ {id} |-> d[i]]

----------------------------------------------------------------------------
(* The default document generator *)

Linked(c) == c.github_repo # NoRepo

\* _generate_stack_content
GenerateStackContent(c) ==
    << <<"# Technology Stack">>, <<"">> >>
    \o (IF Linked(c) /\ c.github_repo[1].languages # {}
        THEN << <<"## Languages">> >>
             \o [i \in 1..Len(Sorted(c.github_repo[1].languages)) |->
                   <<"- **", Sorted(c.github_repo[1].languages)[i], "**">>]
             \o << <<"">> >>
        ELSE <<>>)
    \o << <<"## Frameworks & Libraries">>,
          <<"_Add frameworks and libraries used in this project_">>, <<"">>,
          <<"## Tools & Services">>,
          <<"_Add development tools, CI/CD, and services used_">>, <<"">>,
          <<"## Architecture">>,
          <<"_Describe the high-level architecture of the project_">> >>

\* _generate_business_content
GenerateBusinessContent(c) ==
    << <<"# Business Logic">>, <<"">> >>
    \o (IF Linked(c) /\ Truthy(c.github_repo[1].description)
        THEN << <<"## Project Description">>,
                <<c.github_repo[1].description>>, <<"">> >>
        ELSE <<>>)
    \o << <<"## Core Features">>,
          <<"_List the main features and functionality_">>, <<"">>,
          <<"## Business Rules">>,
          <<"_Document important business rules and constraints_">>, <<"">>,
          <<"## User Stories">>,
          <<"_Add key user stories and use cases_">> >>

OptionalLine(label, v) == IF Truthy(v) THEN << <<label, v>> >> ELSE <<>>

\* lines 537-570: the subsection of one selected contributor
ContributorSection(p) ==
    << <<"### ", IF Truthy(p.name) THEN p.name ELSE p.login>>,
       <<"- **GitHub**: [@", p.login, "](https://github.com/", p.login, ")">> >>
    \o OptionalLine("- **Pronouns**: ", p.pronouns)
    \o OptionalLine("- **Bio**: ", p.bio)
    \o OptionalLine("- **Company**: ", p.company)
    \o OptionalLine("- **Location**: ", p.location)
    \o (IF Truthy(p.website)
        THEN << <<"- **Website**: [", p.website, "](",
                  IF HasScheme(p.website) THEN "" ELSE "https://",
                  p.website, ")">> >>
        ELSE <<>>)
    \o OptionalLine("- **Email**: ", p.email)
    \o (IF Truthy(p.twitter_username)
        THEN << <<"- **Twitter**: [@", p.twitter_username,
                  "](https://twitter.com/", p.twitter_username, ")">> >>
        ELSE <<>>)
    \o (IF p.hireable = "True"
        THEN << <<"- **Available for hire**: Yes">> >> ELSE <<>>)
    \o << <<"">> >>

\* lines 535-536 without the test of selected
RECURSIVE ContributorSectionsOfAll(_)
ContributorSectionsOfAll(ps) ==
    IF ps = <<>> THEN <<>>
    ELSE ContributorSection(Head(ps)) \o ContributorSectionsOfAll(Tail(ps))

RECURSIVE ContributorSections(_)
ContributorSections(ps) ==
    IF ps = <<>> THEN <<>>
    ELSE (IF Head(ps).selected THEN ContributorSection(Head(ps)) ELSE <<>>)
         \o ContributorSections(Tail(ps))

\* _generate_people_content
GeneratePeopleContent(c) ==
    << <<"# People">>, <<"">> >>
    \o (IF c.contributors # <<>>
        THEN << <<"## Contributors">> >> \o ContributorSections(c.contributors)
        ELSE <<>>)
    \o << <<"## Team Roles">>, <<"_Define roles and responsibilities_">>, <<"">>,
          <<"## Contact Information">>,
          <<"_Add relevant contact information_">> >>

\* _generate_guidelines_content with lines 585-590 left out
GenerateGuidelinesPlaceholders(c, gh) ==
    << <<"# Development Guidelines">>, <<"">>,
       <<"## Code Style">>,
       <<"_Define coding standards and style guidelines_">>, <<"">>,
       <<"## Development Workflow">>,
       <<"_Describe the development process and workflow_">>, <<"">>,
       <<"## Testing Guidelines">>,
       <<"_Document testing requirements and practices_">>, <<"">>,
       <<"## Review Process">>,
       <<"_Define the code review process_">> >>

\* _generate_guidelines_content; gh: a repository client was passed
GenerateGuidelinesContent(c, gh) ==
    << <<"# Development Guidelines">>, <<"">> >>
    \o (IF Linked(c) /\ gh
        THEN << <<"## Contributing Guidelines">>,
                <<"# See CONTRIBUTING.md in the repository">>, <<"">> >>
        ELSE << <<"## Code Style">>,
                <<"_Define coding standards and style guidelines_">>, <<"">>,
                <<"## Development Workflow">>,
                <<"_Describe the development process and workflow_">>, <<"">>,
                <<"## Testing Guidelines">>,
                <<"_Document testing requirements and practices_">>, <<"">>,
                <<"## Review Process">>,
                <<"_Define the code review process_">> >>)

\* the clock reads of generate_default_files: three in each add_file_to_context
GenerateReads == 12

\* generate_default_files, lines 456-486; t[i] is what clock read i returns
GenerateDefaultFiles(c, gh, t) ==
    LET c1 == AddFile(c, "stack.md", "stack", GenerateStackContent(c),
                      t[1], t[2], t[3])
        c2 == AddFile(c1, "business.md", "business",
                      GenerateBusinessContent(c1), t[4], t[5], t[6])
        c3 == AddFile(c2, "people.md", "people", GeneratePeopleContent(c2),
                      t[7], t[8], t[9])
    IN AddFile(c3, "guidelines.md", "guidelines",
               GenerateGuidelinesContent(c3, gh), t[10], t[11], t[12])

\* the four saves of generate_default_files, one in each add_file_to_context
SaveGenerated(d, c, gh, t) ==
    LET c1 == AddFile(c, "stack.md", "stack", GenerateStackContent(c),
                      t[1], t[2], t[3])
        c2 == AddFile(c1, "business.md", "business",
                      GenerateBusinessContent(c1), t[4], t[5], t[6])
        c3 == AddFile(c2, "people.md", "people", GeneratePeopleContent(c2),
                      t[7], t[8], t[9])
    IN SaveContext(SaveContext(SaveContext(SaveContext(d, c1), c2), c3),
                   GenerateDefaultFiles(c, gh, t))

----------------------------------------------------------------------------
(* The clock, the store map and the responses *)

\* what n consecutive calls of datetime.now() return when the clock ticks
\* after the k-th of them
Reads(n, k) == [i \in 1..n |-> IF i <= k THEN now ELSE now + 1]

ClockAfter(n, k) == IF k < n THEN now + 1 ELSE now

\* no handler reads the clock as often as this
NoTick == GenerateReads + 3

TickAt(n, k) == k = NoTick \/ (k \in 0..(n - 1) /\ now < MaxTime)

ContextIds == 1..MaxContexts

\* uuid.uuid4(): an id never returned before
NewContextId == CHOOSE i \in ContextIds : i \notin usedIds

\* self.contexts[context_id] = context
Put(cs, c) == [i \in DOMAIN cs \cup {c.id} |-> IF i = c.id THEN c ELSE cs[i]]

\* del self.contexts[context_id]
Del(cs, id) == [i \in DOMAIN cs \ {id} |-> cs[i]]

Anonymous == 0

\* a request completes: what it was, who sent it, its status and the ids of
\* the contexts whose name, metadata or file content the response carries
Reply(n, op, user, ctx, status, shows) ==
    resp' = [n |-> n, op |-> op, user |-> user, ctx |-> ctx,
             status |-> status, shows |-> shows, detail |-> <<>>]

\* a request is received
Receive == nreq < MaxRequests /\ nreq' = nreq + 1

\* the bound on the requests leaves room for one more
CanReceive == nreq < MaxRequests

\* a request is received and answered in the same step
Respond(op, user, ctx, status, shows) ==
    Receive /\ Reply(nreq + 1, op, user, ctx, status, shows)

\* {"success": success}, the body of the answer of delete_context_file
Success(success) ==
    << <<"success", IF success THEN "true" ELSE "false">> >>

\* a request is received and answered with a body worth recording
RespondWith(op, user, ctx, status, shows, detail) ==
    /\ Receive
    /\ resp' = [n |-> nreq + 1, op |-> op, user |-> user, ctx |-> ctx,
                status |-> status, shows |-> shows, detail |-> detail]

\* get_context_by_repo_url: a context of that user linked to exactly that url
GetContextByRepoUrl(user_id, repo_url) ==
    {i \in DOMAIN contexts :
        /\ contexts[i].owner_id = user_id
        /\ Linked(contexts[i])
        /\ contexts[i].github_repo[1].url = repo_url}

\* get_user_contexts
GetUserContexts(user_id) ==
    {i \in DOMAIN contexts : contexts[i].owner_id = user_id}

\* get_public_contexts without the test of is_public
GetEveryContext == DOMAIN contexts

\* get_public_contexts
GetPublicContexts == {i \in DOMAIN contexts : contexts[i].is_public}

----------------------------------------------------------------------------
(* app/main.py: the handlers that change the store.  Each runs to its end   *)
(* without an await, except create_context with a repository url.           *)

\* the gate of the reading pages, used where the owner's gate belongs
IsOwnerOrPublic(user, c) == user = c.owner_id \/ c.is_public

\* user['id'] != context.owner_id raises 403
IsOwner(user, c) == user = c.owner_id

\* a publish request holds the Context object itself: once the context is
\* deleted from the map the object lives on, unchanged, in that request
Detach(p, id) ==
    IF p.ctx = id /\ p.gone = <<>> THEN [p EXCEPT !.gone = <<contexts[id]>>]
    ELSE p

\* require_auth raises 401 for a request without a session user
Unauthenticated(op, id) ==
    /\ Respond(op, Anonymous, id, 401, {})
    /\ UNCHANGED <<contexts, disk, usedIds, now, created, creating,
                   publishing, calls, remote>>

\* what a handler guarded by the owner's gate answers before it acts
Refused(op, user, id) ==
    /\ \/ id \notin DOMAIN contexts /\ Respond(op, user, id, 404, {})
       \/ /\ id \in DOMAIN contexts
          /\ ~IsOwner(user, contexts[id])
          /\ Respond(op, user, id, 403, {})
    /\ UNCHANGED <<contexts, disk, usedIds, now, created, creating,
                   publishing, calls, remote>>

Allowed(user, id) ==
    CanReceive /\ id \in DOMAIN contexts /\ IsOwner(user, contexts[id])

\* PUT /api/contexts/{context_id}
UpdateContext(user, id, request, k) ==
    \/ k = NoTick /\ Refused("update_context", user, id)
    \/ /\ Allowed(user, id)
       /\ TickAt(1, k)
       /\ LET c == UpdateFields(contexts[id], request, Reads(1, k)[1])
          IN /\ contexts' = Put(contexts, c)
             /\ disk' = SaveContext(disk, c)
       /\ now' = ClockAfter(1, k)
       /\ Respond("update_context", user, id, 200, {id})
       /\ UNCHANGED <<usedIds, created, creating, publishing, calls, remote>>

\* DELETE /api/contexts/{context_id}
DeleteContext(user, id) ==
    \/ Refused("delete_context", user, id)
    \/ /\ Allowed(user, id)
       /\ contexts' = Del(contexts, id)
       /\ disk' = DeleteContextFiles(disk, id)
       /\ publishing' = {Detach(p, id) : p \in publishing}
       /\ RespondWith("delete_context", user, id, 200, {},
                      Success(Deletes(contexts, id)))
       /\ UNCHANGED <<usedIds, now, created, creating, calls, remote>>

\* POST /api/contexts/{context_id}/files
CreateContextFile(user, id, name, file_type, content, k) ==
    \/ k = NoTick /\ Refused("create_context_file", user, id)
    \/ /\ Allowed(user, id)
       /\ TickAt(3, k)
       /\ LET t == Reads(3, k)
              c == AddFile(contexts[id], name, file_type, content,
                           t[1], t[2], t[3])
          IN /\ contexts' = Put(contexts, c)
             /\ disk' = SaveContext(disk, c)
       /\ now' = ClockAfter(3, k)
       /\ Respond("create_context_file", user, id, 200, {id})
       /\ UNCHANGED <<usedIds, created, creating, publishing, calls, remote>>

\* PUT /api/contexts/{context_id}/files/{file_name}
UpdateContextFile(user, id, name, content, k) ==
    \/ k = NoTick /\ Refused("update_context_file", user, id)
    \/ /\ Allowed(user, id)
       /\ ~HasFile(contexts[id], name)
       /\ k = NoTick
       /\ Respond("update_context_file", user, id, 404, {})
       /\ UNCHANGED <<contexts, disk, usedIds, now, created, creating,
                      publishing, calls, remote>>
    \/ /\ Allowed(user, id)
       /\ HasFile(contexts[id], name)
       /\ TickAt(2, k)
       /\ LET t == Reads(2, k)
              c == UpdateFile(contexts[id], name, content, t[1], t[2])
          IN /\ contexts' = Put(contexts, c)
             /\ disk' = SaveContext(disk, c)
       /\ now' = ClockAfter(2, k)
       /\ Respond("update_context_file", user, id, 200, {id})
       /\ UNCHANGED <<usedIds, created, creating, publishing, calls, remote>>

\* DELETE /api/contexts/{context_id}/files/{file_name}
DeleteContextFile(user, id, name, k) ==
    \/ k = NoTick /\ Refused("delete_context_file", user, id)
    \/ /\ Allowed(user, id)
       /\ ~HasFile(contexts[id], name)
       /\ k = NoTick
       /\ RespondWith("delete_context_file", user, id, 200, {},
                      Success(Removes(contexts, id, name)))
       /\ UNCHANGED <<contexts, disk, usedIds, now, created, creating,
                      publishing, calls, remote>>
    \/ /\ Allowed(user, id)
       /\ HasFile(contexts[id], name)
       /\ TickAt(1, k)
       /\ LET cs == RemoveFileFromContext(contexts, id, name, Reads(1, k)[1])
          IN /\ contexts' = cs
             /\ disk' = SaveContext(disk, cs[id])
       /\ now' = ClockAfter(1, k)
       /\ RespondWith("delete_context_file", user, id, 200, {},
                      Success(Removes(contexts, id, name)))
       /\ UNCHANGED <<usedIds, created, creating, publishing, calls, remote>>

Logins(c) == {c.contributors[i].login : i \in 1..Len(c.contributors)}

\* lines 556-560 with the flag set instead of flipped
ToggleOn(c, login) ==
    LET i == CHOOSE j \in 1..Len(c.contributors) :
                 /\ c.contributors[j].login = login
                 /\ \A h \in 1..(j - 1) : c.contributors[h].login # login
    IN [c EXCEPT !.contributors[i].selected = TRUE]

\* lines 556-560 with every contributor flipped
ToggleEvery(c, login) ==
    [c EXCEPT !.contributors =
                  [j \in 1..Len(@) |-> [@[j] EXCEPT !.selected = ~@]]]

\* lines 556-560: the first contributor of that login is toggled
Toggle(c, login) ==
    LET i == CHOOSE j \in 1..Len(c.contributors) :
                 /\ c.contributors[j].login = login
                 /\ \A h \in 1..(j - 1) : c.contributors[h].login # login
    IN [c EXCEPT !.contributors[i].selected = ~@]

\* lines 556-582: the context after the flag is toggled and people.md, when
\* the context has one, is written again from the contributors
ToggleSelection(c, login, t1, t2) ==
    UpdateFile(Toggle(c, login), "people.md",
               GeneratePeopleContent(Toggle(c, login)), t1, t2)

\* POST /api/contexts/{context_id}/contributors/{login}/toggle
ToggleContributorSelection(user, id, login, k) ==
    \/ k = NoTick /\ Refused("toggle_contributor", user, id)
    \/ /\ Allowed(user, id)
       /\ login \notin Logins(contexts[id])
       /\ k = NoTick
       /\ Respond("toggle_contributor", user, id, 404, {})
       /\ UNCHANGED <<contexts, disk, usedIds, now, created, creating,
                      publishing, calls, remote>>
    \/ /\ Allowed(user, id)
       /\ login \in Logins(contexts[id])
       /\ TickAt(2, k)
       /\ HasFile(contexts[id], "people.md") \/ k \in {0, NoTick}
       /\ LET t == Reads(2, k)
              c1 == Toggle(contexts[id], login)
              c2 == ToggleSelection(contexts[id], login, t[1], t[2])
          IN /\ contexts' = Put(contexts, c2)
             /\ disk' = SaveContext(SaveContext(disk, c1), c2)
       /\ now' = ClockAfter(2, k)
       /\ Respond("toggle_contributor", user, id, 200, {id})
       /\ UNCHANGED <<usedIds, created, creating, publishing, calls, remote>>

----------------------------------------------------------------------------
(* POST /api/contexts: create_context, and GitHubService.get_repo_info and  *)
(* get_contributors, which it awaits                                        *)

\* lines 269-272 with the lookup made over the contexts of every owner
DuplicateAnyOwner(user_id, request) ==
    /\ Truthy(request.github_repo_url)
    /\ \E u \in Users : GetContextByRepoUrl(u, request.github_repo_url) # {}

\* ContextService.create_context, lines 269-272
Duplicate(user_id, request) ==
    /\ Truthy(request.github_repo_url)
    /\ GetContextByRepoUrl(user_id, request.github_repo_url) # {}

\* the url is given and the pattern of get_repo_info matches it
Fetchable(request) ==
    Truthy(request.github_repo_url) /\ ParseRepoUrl(request.github_repo_url) # None

\* the last part of the handler: set_context_contributors when the repository
\* was linked, generate_default_files, and the context as the response
FinishCreate(n, user, id, linked, contributors, k) ==
    LET reads == IF linked THEN GenerateReads + 1 ELSE GenerateReads IN
    IF id \in DOMAIN contexts
    THEN /\ TickAt(reads, k)
         /\ LET t == Reads(reads, k)
                off == IF linked THEN 1 ELSE 0
                tg == [i \in 1..GenerateReads |-> t[i + off]]
                c1 == IF linked
                      THEN SetContributors(contexts[id], contributors, t[1])
                      ELSE contexts[id]
            IN /\ contexts' = Put(contexts, GenerateDefaultFiles(c1, TRUE, tg))
               /\ disk' = SaveGenerated(IF linked THEN SaveContext(disk, c1)
                                        ELSE disk, c1, TRUE, tg)
         /\ now' = ClockAfter(reads, k)
         /\ Reply(n, "create_context", user, id, 200, {id})
    ELSE /\ k = NoTick
         /\ Reply(n, "create_context", user, id, 200, {})
         /\ UNCHANGED <<contexts, disk, now>>

\* create_context raises ValueError and the handler answers 400
CreateContextDuplicate(user, request) ==
    /\ Duplicate(user, request)
    /\ Respond("create_context", user, 0, 400, {})
    /\ UNCHANGED <<contexts, disk, usedIds, now, created, creating,
                   publishing, calls, remote>>

\* the handler up to its first await, the repository request of get_repo_info
CreateContextAwaiting(user, request, k) ==
    /\ CanReceive
    /\ ~Duplicate(user, request)
    /\ Cardinality(usedIds) < MaxContexts
    /\ Fetchable(request)
    /\ TickAt(2, k)
    /\ Receive
    /\ LET t == Reads(2, k)
           c == Context(NewContextId, user, request, t[1], t[2])
       IN /\ contexts' = Put(contexts, c)
          /\ disk' = SaveContext(disk, c)
          /\ usedIds' = usedIds \cup {c.id}
          /\ created' = Append(created, [value |-> c, earlier |-> usedIds,
                                       request |-> request])
          /\ creating' = creating \cup
               {[n |-> nreq + 1, id |-> c.id, user |-> user, pc |-> "repo",
                 repo |-> <<>>, listed |-> <<>>, fetched |-> <<>>]}
    /\ now' = ClockAfter(2, k)
    /\ UNCHANGED <<resp, publishing, calls, remote>>

\* the whole handler when no url is given or get_repo_info cannot parse it
CreateContextPlain(user, request, k) ==
    /\ CanReceive
    /\ ~Duplicate(user, request)
    /\ Cardinality(usedIds) < MaxContexts
    /\ ~Fetchable(request)
    /\ TickAt(2 + GenerateReads, k)
    /\ Receive
    /\ LET t == Reads(2 + GenerateReads, k)
           tg == [i \in 1..GenerateReads |-> t[i + 2]]
           c == Context(NewContextId, user, request, t[1], t[2])
       IN /\ contexts' = Put(contexts, GenerateDefaultFiles(c, TRUE, tg))
          /\ disk' = SaveGenerated(SaveContext(disk, c), c, TRUE, tg)
          /\ usedIds' = usedIds \cup {c.id}
          /\ created' = Append(created, [value |-> c, earlier |-> usedIds,
                                       request |-> request])
          /\ Reply(nreq + 1, "create_context", user, c.id, 200, {c.id})
    /\ now' = ClockAfter(2 + GenerateReads, k)
    /\ UNCHANGED <<creating, publishing, calls, remote>>

\* get_repo_info without lines 64-66: a transport error of the repository
\* request leaves the handler as an exception and the request ends with 500
CreateRepoResponseRaising(r, outcome, description, k) ==
    /\ r \in creating
    /\ r.pc = "repo"
    /\ \/ /\ outcome = "ok"
          /\ k = NoTick
          /\ creating' = (creating \ {r}) \cup
               {[r EXCEPT !.pc = "languages",
                          !.repo = <<GitHubRepo(description, {})>>]}
          /\ UNCHANGED <<contexts, disk, now, resp>>
       \/ /\ outcome = "status"
          /\ description = None
          /\ creating' = creating \ {r}
          /\ FinishCreate(r.n, r.user, r.id, FALSE, <<>>, k)
       \/ /\ outcome = "error"
          /\ description = None
          /\ k = NoTick
          /\ creating' = creating \ {r}
          /\ Reply(r.n, "create_context", r.user, r.id, 500, {})
          /\ UNCHANGED <<contexts, disk, now>>
    /\ UNCHANGED <<usedIds, created, publishing, calls, remote, nreq>>

\* get_repo_info, lines 36-44: the repository request is answered
CreateRepoResponse(r, outcome, description, k) ==
    /\ r \in creating
    /\ r.pc = "repo"
    /\ \/ /\ outcome = "ok"
          /\ k = NoTick
          /\ creating' = (creating \ {r}) \cup
               {[r EXCEPT !.pc = "languages",
                          !.repo = <<GitHubRepo(description, {})>>]}
          /\ UNCHANGED <<contexts, disk, now, resp>>
       \/ /\ outcome \in {"status", "error"}
          /\ description = None
          /\ creating' = creating \ {r}
          /\ FinishCreate(r.n, r.user, r.id, FALSE, <<>>, k)
    /\ UNCHANGED <<usedIds, created, publishing, calls, remote, nreq>>

\* lines 47-63 of get_repo_info, then lines 166-170 of the handler: the
\* language request is answered, the repository is linked and the
\* contributors are requested
CreateLanguagesResponse(r, outcome, languages, k) ==
    /\ r \in creating
    /\ r.pc = "languages"
    /\ \/ /\ outcome \in {"ok", "status"}
          /\ outcome = "status" => languages = {}
          /\ creating' = (creating \ {r}) \cup {[r EXCEPT !.pc = "contributors"]}
          /\ IF r.id \in DOMAIN contexts
             THEN /\ TickAt(1, k)
                  /\ LET c == SetRepo(contexts[r.id],
                                      [r.repo[1] EXCEPT !.languages = languages],
                                      Reads(1, k)[1])
                     IN /\ contexts' = Put(contexts, c)
                        /\ disk' = SaveContext(disk, c)
                  /\ now' = ClockAfter(1, k)
             ELSE k = NoTick /\ UNCHANGED <<contexts, disk, now>>
          /\ UNCHANGED resp
       \/ /\ outcome = "error"
          /\ languages = {}
          /\ creating' = creating \ {r}
          /\ FinishCreate(r.n, r.user, r.id, FALSE, <<>>, k)
    /\ UNCHANGED <<usedIds, created, publishing, calls, remote, nreq>>

\* get_contributors, lines 72-83: the contributors request is answered
CreateContributorsResponse(r, outcome, listed, k) ==
    /\ r \in creating
    /\ r.pc = "contributors"
    /\ \/ /\ outcome = "ok"
          /\ listed # <<>>
          /\ k = NoTick
          /\ creating' = (creating \ {r}) \cup
               {[r EXCEPT !.pc = "user", !.listed = listed]}
          /\ UNCHANGED <<contexts, disk, now, resp>>
       \/ /\ \/ outcome = "ok" /\ listed = <<>>
             \/ outcome \in {"status", "error"} /\ listed = <<>>
          /\ creating' = creating \ {r}
          /\ FinishCreate(r.n, r.user, r.id, TRUE, <<>>, k)
    /\ UNCHANGED <<usedIds, created, publishing, calls, remote, nreq>>

\* lines 90-110: a profile that could not be read leaves its fields None
Profile(listed, outcome) ==
    IF outcome = "ok" THEN listed
    ELSE GitHubContributor(listed.login, None, None, None)

\* get_contributors, lines 85-112: one profile request is answered
CreateUserResponse(r, outcome, k) ==
    /\ r \in creating
    /\ r.pc = "user"
    /\ LET next == r.listed[Len(r.fetched) + 1]
           fetched == Append(r.fetched, Profile(next, outcome))
       IN \/ /\ outcome \in {"ok", "status"}
             /\ Len(fetched) < Len(r.listed)
             /\ k = NoTick
             /\ creating' = (creating \ {r}) \cup {[r EXCEPT !.fetched = fetched]}
             /\ UNCHANGED <<contexts, disk, now, resp>>
          \/ /\ outcome \in {"ok", "status"}
             /\ Len(fetched) = Len(r.listed)
             /\ creating' = creating \ {r}
             /\ FinishCreate(r.n, r.user, r.id, TRUE, fetched, k)
          \/ /\ outcome = "error"
             /\ creating' = creating \ {r}
             /\ FinishCreate(r.n, r.user, r.id, TRUE, <<>>, k)
    /\ UNCHANGED <<usedIds, created, publishing, calls, remote, nreq>>

----------------------------------------------------------------------------
(* The handlers that only read: app/main.py and app/mcp_server.py *)

Answer(op, user, ctx, status, shows) ==
    /\ Respond(op, user, ctx, status, shows)
    /\ UNCHANGED <<contexts, disk, usedIds, now, created, creating,
                   publishing, calls, remote>>

\* not context.is_public and (not user or user['id'] != context.owner_id)
\* raises 403
CanRead(user, c) == c.is_public \/ (user # Anonymous /\ user = c.owner_id)

\* GET /api/contexts
ListContexts(user) ==
    Answer("list_contexts", user, 0, 200,
           IF user # Anonymous
           THEN GetUserContexts(user)
                \cup {i \in GetPublicContexts : contexts[i].owner_id # user}
           ELSE GetPublicContexts)

\* GET /profile
ProfilePage(user) ==
    Answer("profile", user, 0, 200, GetUserContexts(user))

\* GET /api/contexts/{context_id}
GetContext(user, id) ==
    \/ id \notin DOMAIN contexts /\ Answer("get_context", user, id, 404, {})
    \/ /\ id \in DOMAIN contexts
       /\ ~CanRead(user, contexts[id])
       /\ Answer("get_context", user, id, 403, {})
    \/ /\ id \in DOMAIN contexts
       /\ CanRead(user, contexts[id])
       /\ Answer("get_context", user, id, 200, {id})

\* GET /contexts/{context_id}
ContextDetailPage(user, id) ==
    \/ id \notin DOMAIN contexts /\ Answer("context_detail", user, id, 404, {})
    \/ /\ id \in DOMAIN contexts
       /\ ~CanRead(user, contexts[id])
       /\ Answer("context_detail", user, id, 403, {})
    \/ /\ id \in DOMAIN contexts
       /\ CanRead(user, contexts[id])
       /\ Answer("context_detail", user, id, 200, {id})

\* GET /contexts/{context_id}/edit
EditContextPage(user, id) ==
    \/ Refused("edit_context", user, id)
    \/ Allowed(user, id) /\ Answer("edit_context", user, id, 200, {id})

\* list_resources: the public contexts and their files
ListResources ==
    Answer("list_resources", Anonymous, 0, 200, GetPublicContexts)

\* read_resource: context://<id> or context://<id>/files/<name>; file is None
\* for the first form
ReadResource(id, file) ==
    \/ id \notin DOMAIN contexts
       /\ Answer("read_resource", Anonymous, id, 404, {})
    \/ /\ id \in DOMAIN contexts
       /\ file # None
       /\ ~HasFile(contexts[id], file)
       /\ Answer("read_resource", Anonymous, id, 404, {})
    \/ /\ id \in DOMAIN contexts
       /\ file = None \/ HasFile(contexts[id], file)
       /\ Answer("read_resource", Anonymous, id, 200, {id})

\* str.lower()
Lower(text) == IF text = "My Ctx" THEN "my ctx" ELSE text

\* needle in hay
Contains(hay, needle) ==
    \/ needle = ""
    \/ needle = hay
    \/ needle = "ctx" /\ hay \in {"my ctx", "my-ctx"}
    \/ needle = "my" /\ hay \in {"my ctx", "my-ctx"}

Queries == {"CTX", "about", "zzz"}

LowerQuery(q) == IF q = "CTX" THEN "ctx" ELSE q

\* _search_contexts: the public contexts whose name or description holds the
\* query
SearchContexts(query) ==
    Answer("search_contexts", Anonymous, 0, 200,
           {i \in DOMAIN contexts :
               /\ contexts[i].is_public
               /\ \/ Contains(Lower(contexts[i].name), LowerQuery(query))
                  \/ /\ Truthy(contexts[i].description)
                     /\ Contains(Lower(contexts[i].description),
                                 LowerQuery(query))})

\* _get_context_details
GetContextDetails(id) ==
    \/ id \notin DOMAIN contexts
       /\ Answer("get_context_details", Anonymous, id, 404, {})
    \/ /\ id \in DOMAIN contexts
       /\ ~contexts[id].is_public
       /\ Answer("get_context_details", Anonymous, id, 403, {})
    \/ /\ id \in DOMAIN contexts
       /\ contexts[id].is_public
       /\ Answer("get_context_details", Anonymous, id, 200, {id})

\* _list_contexts: every context of the store unless public_only
ListContextsTool(public_only) ==
    Answer("list_contexts_tool", Anonymous, 0, 200,
           IF public_only THEN GetPublicContexts ELSE DOMAIN contexts)

\* _get_context_files
GetContextFiles(id) ==
    \/ id \notin DOMAIN contexts
       /\ Answer("get_context_files", Anonymous, id, 404, {})
    \/ /\ id \in DOMAIN contexts
       /\ ~contexts[id].is_public
       /\ Answer("get_context_files", Anonymous, id, 403, {})
    \/ /\ id \in DOMAIN contexts
       /\ contexts[id].is_public
       /\ Answer("get_context_files", Anonymous, id, 200, {id})

----------------------------------------------------------------------------
(* POST /api/contexts/{context_id}/create-pr: create_pull_request and       *)
(* GitHubService.create_context_pr                                          *)

\* the Context object the request holds
Held(p) == IF p.gone # <<>> THEN p.gone[1] ELSE contexts[p.ctx]

\* context.name.lower().replace(' ', '-')
Slug(name) == IF name = "My Ctx" THEN "my-ctx" ELSE name

\* datetime.now().strftime('%Y%m%d-%H%M%S'): the clock cut to whole seconds
Timestamp(t) == t \div TicksPerSecond

\* line 173
BranchName(name, t) == <<"context-", Slug(name), "-", Timestamp(t)>>

\* an upstream call of a publish request, as the upstream sees it; its answer
\* is recorded when it arrives
Call(p, call, branch, path, paths) ==
    [n |-> p.n, call |-> call, branch |-> branch, path |-> path,
     paths |-> paths, user |-> p.user, ctx |-> p.ctx,
     owner |-> Held(p).owner_id, public |-> Held(p).is_public,
     answer |-> "pending", message |-> None]

NoBranch == <<>>

\* the call is sent: the log of the request that issued it grows by it
Issued(log, call) ==
    [n \in DOMAIN log \cup {call.n} |->
        IF n \in DOMAIN log
        THEN IF n = call.n THEN Append(log[n], call) ELSE log[n]
        ELSE <<call>>]

\* the pending call of request n is answered
Answered(n, outcome) == [calls EXCEPT ![n][Len(calls[n])].answer = outcome]

\* lines 188-194: files_to_create
FilesToCreate(c) ==
    [i \in 1..Len(c.files) |->
        [path |-> <<".context/", c.files[i].name>>, content |-> c.files[i].content]]

\* line 221: the paths the pull-request body lists
BodyPaths(c) == [i \in 1..Len(c.files) |-> <<".context/", c.files[i].name>>]

\* the answer is taken and the next call goes out
PublishGoesOn(p, outcome, q, call) ==
    /\ publishing' = (publishing \ {p}) \cup {q}
    /\ calls' = Issued(Answered(p.n, outcome), call)
    /\ UNCHANGED resp

\* the request ends with an error: HTTPException(500), nothing else is done
PublishFails(p, outcome, detail) ==
    /\ publishing' = publishing \ {p}
    /\ calls' = Answered(p.n, outcome)
    /\ resp' = [n |-> p.n, op |-> "create_pull_request", user |-> p.user,
                ctx |-> p.ctx, status |-> 500, shows |-> {}, detail |-> detail]
    /\ UNCHANGED <<remote, now>>

\* the handler up to its first await: lines 594-603 of main.py and lines
\* 28-39 of get_repo_info
CreatePullRequest(user, id) ==
    /\ UNCHANGED <<contexts, disk, usedIds, now, created, creating, remote>>
    /\ \/ /\ id \notin DOMAIN contexts
          /\ Respond("create_pull_request", user, id, 404, {})
          /\ UNCHANGED <<publishing, calls>>
       \/ /\ id \in DOMAIN contexts
          /\ ~Linked(contexts[id])
          /\ Respond("create_pull_request", user, id, 400, {})
          /\ UNCHANGED <<publishing, calls>>
       \/ /\ id \in DOMAIN contexts
          /\ Linked(contexts[id])
          /\ ParseRepoUrl(contexts[id].github_repo[1].url) # None
          /\ Receive
          /\ LET p == [n |-> nreq + 1, user |-> user, ctx |-> id, gone |-> <<>>,
                       pc |-> "info_repo", branch |-> NoBranch, todo |-> <<>>,
                       done |-> 0]
             IN /\ publishing' = publishing \cup {p}
                /\ calls' = Issued(calls, Call(p, "get_repo", NoBranch, <<>>, <<>>))
          /\ UNCHANGED resp

\* get_repo_info, lines 36-50: the repository request is answered
PublishInfoRepoResponse(p, outcome) ==
    /\ p \in publishing
    /\ p.pc = "info_repo"
    /\ UNCHANGED <<contexts, disk, usedIds, created, creating, nreq>>
    /\ \/ /\ outcome = "ok"
          /\ PublishGoesOn(p, outcome, [p EXCEPT !.pc = "info_languages"],
                           Call(p, "get_languages", NoBranch, <<>>, <<>>))
          /\ UNCHANGED <<remote, now>>
       \/ /\ outcome \in {"status", "error"}
          /\ PublishFails(p, outcome, <<"Repository not found or not accessible">>)

\* get_repo_info, lines 51-66, then create_context_pr, lines 148-153
PublishInfoLanguagesResponse(p, outcome) ==
    /\ p \in publishing
    /\ p.pc = "info_languages"
    /\ UNCHANGED <<contexts, disk, usedIds, created, creating, nreq>>
    /\ \/ /\ outcome \in {"ok", "status"}
          /\ PublishGoesOn(p, outcome, [p EXCEPT !.pc = "repo"],
                           Call(p, "get_repo", NoBranch, <<>>, <<>>))
          /\ UNCHANGED <<remote, now>>
       \/ /\ outcome = "error"
          /\ PublishFails(p, outcome, <<"Repository not found or not accessible">>)

\* create_context_pr, lines 155-165, going on whatever the status
PublishRepoResponseLenient(p, outcome) ==
    /\ p \in publishing
    /\ p.pc = "repo"
    /\ UNCHANGED <<contexts, disk, usedIds, created, creating, nreq>>
    /\ \/ /\ outcome \in {"ok", "status"}
          /\ PublishGoesOn(p, outcome, [p EXCEPT !.pc = "ref"],
                           Call(p, "get_ref", NoBranch, <<>>, <<>>))
          /\ UNCHANGED <<remote, now>>
       \/ /\ outcome = "error"
          /\ PublishFails(p, outcome, <<"transport error">>)

\* create_context_pr, lines 155-165
PublishRepoResponse(p, outcome) ==
    /\ p \in publishing
    /\ p.pc = "repo"
    /\ UNCHANGED <<contexts, disk, usedIds, created, creating, nreq>>
    /\ \/ /\ outcome = "ok"
          /\ PublishGoesOn(p, outcome, [p EXCEPT !.pc = "ref"],
                           Call(p, "get_ref", NoBranch, <<>>, <<>>))
          /\ UNCHANGED <<remote, now>>
       \/ /\ outcome = "status"
          /\ PublishFails(p, outcome, <<"Could not access repository">>)
       \/ /\ outcome = "error"
          /\ PublishFails(p, outcome, <<"transport error">>)

\* create_context_pr, lines 167-182, going on whatever the status
PublishRefResponseLenient(p, outcome, k) ==
    /\ p \in publishing
    /\ p.pc = "ref"
    /\ UNCHANGED <<contexts, disk, usedIds, created, creating, nreq>>
    /\ \/ /\ outcome \in {"ok", "status"}
          /\ TickAt(1, k)
          /\ LET q == [p EXCEPT !.pc = "create_ref",
                                !.branch = BranchName(Held(p).name, Reads(1, k)[1])]
             IN PublishGoesOn(p, outcome, q,
                              Call(q, "create_ref", q.branch, <<>>, <<>>))
          /\ now' = ClockAfter(1, k)
          /\ UNCHANGED remote
       \/ /\ outcome = "error"
          /\ k = NoTick
          /\ PublishFails(p, outcome, <<"transport error">>)

\* create_context_pr, lines 167-182: the branch is named and requested
PublishRefResponse(p, outcome, k) ==
    /\ p \in publishing
    /\ p.pc = "ref"
    /\ UNCHANGED <<contexts, disk, usedIds, created, creating, nreq>>
    /\ \/ /\ outcome = "ok"
          /\ TickAt(1, k)
          /\ LET q == [p EXCEPT !.pc = "create_ref",
                                !.branch = BranchName(Held(p).name, Reads(1, k)[1])]
             IN PublishGoesOn(p, outcome, q,
                              Call(q, "create_ref", q.branch, <<>>, <<>>))
          /\ now' = ClockAfter(1, k)
          /\ UNCHANGED remote
       \/ /\ outcome = "status"
          /\ k = NoTick
          /\ PublishFails(p, outcome, <<"Could not get default branch reference">>)
       \/ /\ outcome = "error"
          /\ k = NoTick
          /\ PublishFails(p, outcome, <<"transport error">>)

\* lines 213-245: the pull request is built from the context as it is now
PullRequestCall(p) ==
    Call(p, "create_pr", p.branch, <<>>, BodyPaths(Held(p)))

\* create_context_pr, lines 184-208: the upstream creates a branch only under
\* a name no branch has yet
PublishCreateRefResponse(p, outcome) ==
    /\ p \in publishing
    /\ p.pc = "create_ref"
    /\ UNCHANGED <<contexts, disk, usedIds, created, creating, nreq>>
    /\ \/ /\ outcome = "ok"
          /\ p.branch \notin remote.branches
          /\ remote' = [remote EXCEPT !.branches = @ \cup {p.branch}]
          /\ LET todo == FilesToCreate(Held(p))
                 q == [p EXCEPT !.todo = todo,
                                !.pc = IF todo = <<>> THEN "pr" ELSE "put"]
             IN PublishGoesOn(p, outcome, q,
                      IF todo = <<>> THEN PullRequestCall(q)
                      ELSE Call(q, "put_file", q.branch, todo[1].path, <<>>))
          /\ UNCHANGED now
       \/ /\ outcome = "status"
          /\ PublishFails(p, outcome, <<"Could not create branch">>)
       \/ /\ outcome = "error"
          /\ PublishFails(p, outcome, <<"transport error">>)

\* create_context_pr, lines 197-245: one file write is answered; a status
\* other than 200 and 201 is only printed
PublishPutResponse(p, outcome) ==
    /\ p \in publishing
    /\ p.pc = "put"
    /\ UNCHANGED <<contexts, disk, usedIds, created, creating, nreq>>
    /\ \/ /\ outcome \in {"ok", "status"}
          /\ remote' = IF outcome = "ok"
                       THEN [remote EXCEPT !.files = @ \cup
                               {<<p.branch, p.todo[p.done + 1].path,
                                  p.todo[p.done + 1].content>>}]
                       ELSE remote
          /\ LET q == [p EXCEPT !.done = @ + 1,
                                !.pc = IF p.done + 1 = Len(p.todo)
                                       THEN "pr" ELSE "put"]
             IN PublishGoesOn(p, outcome, q,
                      IF q.pc = "pr" THEN PullRequestCall(q)
                      ELSE Call(q, "put_file", q.branch,
                                q.todo[q.done + 1].path, <<>>))
          /\ UNCHANGED now
       \/ /\ outcome = "error"
          /\ PublishFails(p, outcome, <<"transport error">>)

Messages == {None, "Validation Failed"}

\* the upstream's message, or the default of error_data.get
PullRequestError(message) ==
    <<"Could not create PR: ", IF message = None THEN "Unknown error" ELSE message>>

\* the pull request is refused with that message
Refusal(n, outcome, message) ==
    [Answered(n, outcome) EXCEPT ![n][Len(calls[n])].message = message]

\* create_context_pr, lines 247-256, deleting the branch when the pull
\* request is refused
PublishPullResponseRollback(p, outcome, message) ==
    /\ p \in publishing
    /\ p.pc = "pr"
    /\ outcome = "status"
    /\ UNCHANGED <<contexts, disk, usedIds, created, creating, nreq, now>>
    /\ publishing' = publishing \ {p}
    /\ calls' = Refusal(p.n, outcome, message)
    /\ remote' = [remote EXCEPT !.branches = @ \ {p.branch}]
    /\ resp' = [n |-> p.n, op |-> "create_pull_request", user |-> p.user,
                ctx |-> p.ctx, status |-> 500, shows |-> {},
                detail |-> PullRequestError(message)]

\* create_context_pr, lines 247-256
PublishPullResponse(p, outcome, message) ==
    /\ p \in publishing
    /\ p.pc = "pr"
    /\ UNCHANGED <<contexts, disk, usedIds, created, creating, nreq>>
    /\ \/ /\ outcome = "ok"
          /\ message = None
          /\ remote' = [remote EXCEPT !.pulls = @ \cup {p.branch}]
          /\ publishing' = publishing \ {p}
          /\ calls' = Answered(p.n, outcome)
          /\ resp' = [n |-> p.n, op |-> "create_pull_request", user |-> p.user,
                      ctx |-> p.ctx, status |-> 200, shows |-> {},
                      detail |-> <<"pr_url">>]
          /\ UNCHANGED now
       \/ /\ outcome = "status"
          /\ publishing' = publishing \ {p}
          /\ calls' = Refusal(p.n, outcome, message)
          /\ resp' = [n |-> p.n, op |-> "create_pull_request", user |-> p.user,
                      ctx |-> p.ctx, status |-> 500, shows |-> {},
                      detail |-> PullRequestError(message)]
          /\ UNCHANGED <<remote, now>>
       \/ /\ outcome = "error"
          /\ message = None
          /\ PublishFails(p, outcome, <<"transport error">>)

----------------------------------------------------------------------------
(* Initial states *)

EmptyMap == [i \in {} |-> None]

NoRemote == [branches |-> {}, files |-> {}, pulls |-> {}]

NoResponse ==
    [n |-> 0, op |-> "none", user |-> Anonymous, ctx |-> 0, status |-> 0,
     shows |-> {}, detail |-> <<>>]

\* ContextService.__init__: an empty map; nothing was requested yet
InitEmpty ==
    /\ contexts = EmptyMap
    /\ disk = EmptyMap
    /\ usedIds = {}
    /\ now = 0
    /\ created = <<>>
    /\ resp = NoResponse
    /\ creating = {}
    /\ publishing = {}
    /\ calls = EmptyMap
    /\ remote = NoRemote
    /\ nreq = 0

\* The store after user 1 created a context for RepoUrl and every upstream
\* call of that request succeeded, the clock standing at 0: the state
\* CreateContext, CreateRepoResponse, CreateLanguagesResponse,
\* CreateContributorsResponse and CreateUserResponse lead to from InitEmpty.
LinkedRequest(is_public) ==
    [name |-> "My Ctx", description |-> "about", github_repo_url |-> RepoUrl,
     is_public |-> is_public]

LinkedRepo == GitHubRepo("a repo", {"Python", "Go"})

ZeroReads == [i \in 1..GenerateReads |-> 0]

LinkedContext(is_public) ==
    GenerateDefaultFiles(
        SetContributors(
            SetRepo(Context(1, 1, LinkedRequest(is_public), 0, 0), LinkedRepo, 0),
            <<Carol, Dave>>, 0),
        TRUE, ZeroReads)

InitLinked ==
    /\ \E is_public \in BOOLEAN :
          /\ contexts = Put(EmptyMap, LinkedContext(is_public))
          /\ disk = SaveContext(EmptyMap, LinkedContext(is_public))
          /\ created = <<[value |-> Context(1, 1, LinkedRequest(is_public), 0, 0),
                          earlier |-> {}, request |-> LinkedRequest(is_public)]>>
    /\ usedIds = {1}
    /\ now = 0
    /\ resp = [n |-> 0, op |-> "create_context", user |-> 1, ctx |-> 1,
               status |-> 200, shows |-> {1}, detail |-> <<>>]
    /\ creating = {}
    /\ publishing = {}
    /\ calls = EmptyMap
    /\ remote = NoRemote
    /\ nreq = 0

\* The same store after the owner removed stack.md and business.md
\* (DeleteContextFile twice), the clock still at 0
TrimmedOnce(is_public) == RemoveFile(LinkedContext(is_public), "stack.md", 0)

TrimmedContext(is_public) == RemoveFile(TrimmedOnce(is_public), "business.md", 0)

InitTrimmed ==
    /\ \E is_public \in BOOLEAN :
          /\ contexts = Put(EmptyMap, TrimmedContext(is_public))
          /\ disk = SaveContext(SaveContext(SaveContext(EmptyMap,
                        LinkedContext(is_public)), TrimmedOnce(is_public)),
                        TrimmedContext(is_public))
          /\ created = <<[value |-> Context(1, 1, LinkedRequest(is_public), 0, 0),
                          earlier |-> {}, request |-> LinkedRequest(is_public)]>>
    /\ usedIds = {1}
    /\ now = 0
    /\ resp = [n |-> 0, op |-> "delete_context_file", user |-> 1, ctx |-> 1,
               status |-> 200, shows |-> {}, detail |-> Success(TRUE)]
    /\ creating = {}
    /\ publishing = {}
    /\ calls = EmptyMap
    /\ remote = NoRemote
    /\ nreq = 0

----------------------------------------------------------------------------
(* The store under the requests that change it *)

FileNameInputs == {"people.md", "notes.md"}

PlainRequests ==
    [name : {"my-ctx"}, description : {None}, github_repo_url : {None},
     is_public : BOOLEAN]

Outcomes == {"ok", "status", "error"}

Next ==
    \/ \E op \in {"update_context", "create_context_file"}, id \in usedIds :
          Unauthenticated(op, id)
    \/ \E user \in Users, request \in PlainRequests, k \in {1, NoTick} :
          CreateContextPlain(user, request, k)
    \/ \E user \in Users, id \in usedIds, request \in UpdateContextRequests,
          k \in {0, NoTick} :
          UpdateContext(user, id, request, k)
    \/ \E user \in Users, id \in usedIds : DeleteContext(user, id)
    \/ \E user \in Users, id \in usedIds, name \in FileNameInputs,
          content \in CustomContents, k \in {0, 1, 2, NoTick} :
          CreateContextFile(user, id, name, "custom", content, k)
    \/ \E user \in Users, id \in usedIds, name \in FileNameInputs,
          content \in CustomContents, k \in {0, 1, NoTick} :
          UpdateContextFile(user, id, name, content, k)
    \/ \E user \in Users, id \in usedIds, name \in FileNameInputs,
          k \in {0, NoTick} :
          DeleteContextFile(user, id, name, k)
    \/ \E user \in Users, id \in usedIds, login \in {"carol", "dave", "erin"},
          k \in {0, 1, NoTick} :
          ToggleContributorSelection(user, id, login, k)

Spec == InitLinked /\ [][Next]_vars

----------------------------------------------------------------------------
(* Context creation from the empty store, with the upstream calls of each   *)
(* request answered in any order                                            *)

\* requests that give a url: the url of the repository, public or private,
\* the same with .git, and a url get_repo_info cannot parse
CreateRequests ==
    [name : {"My Ctx"}, description : {"about"},
     github_repo_url : {RepoUrl}, is_public : BOOLEAN]
    \cup [name : {"My Ctx"}, description : {"about"},
          github_repo_url : RequestUrls \ {None, RepoUrl}, is_public : {TRUE}]

NextCreate ==
    \/ \E user \in Users, request \in CreateRequests :
          CreateContextDuplicate(user, request)
    \/ \E user \in Users, request \in CreateRequests, k \in {1, NoTick} :
          CreateContextAwaiting(user, request, k)
    \/ \E user \in Users, request \in CreateRequests, k \in {1, NoTick} :
          CreateContextPlain(user, request, k)
    \/ \E r \in creating, outcome \in Outcomes :
          CreateRepoResponse(r, outcome,
                             IF outcome = "ok" THEN "a repo" ELSE None, NoTick)
    \/ \E r \in creating, outcome \in Outcomes :
          CreateLanguagesResponse(r, outcome,
                                  IF outcome = "ok" THEN Languages ELSE {},
                                  NoTick)
    \/ \E r \in creating, outcome \in Outcomes, listed \in ContributorLists :
          CreateContributorsResponse(r, outcome, listed, NoTick)
    \/ \E r \in creating, outcome \in Outcomes :
          CreateUserResponse(r, outcome, NoTick)
    \/ \E user \in Users, id \in usedIds : DeleteContext(user, id)

SpecCreate == InitEmpty /\ [][NextCreate]_vars

----------------------------------------------------------------------------
(* The readers: the pages and the API of app/main.py and the tools of the   *)
(* adapter, over a store whose contexts change visibility                   *)

Requesters == Users \cup {Anonymous}

NextRead ==
    \/ \E user \in Users, request \in PlainRequests :
          CreateContextPlain(user, request, NoTick)
    \/ \E user \in Users, id \in usedIds,
          request \in [name : {None}, description : {None},
                       is_public : {"True", "False"}] :
          UpdateContext(user, id, request, NoTick)
    \/ \E user \in Users, id \in usedIds : DeleteContext(user, id)
    \/ \E user \in Requesters : ListContexts(user)
    \/ \E user \in Users : ProfilePage(user)
    \/ \E user \in Requesters, id \in usedIds : GetContext(user, id)
    \/ \E user \in Requesters, id \in usedIds : ContextDetailPage(user, id)
    \/ \E user \in Users, id \in usedIds : EditContextPage(user, id)
    \/ ListResources
    \/ \E id \in usedIds, file \in {None, "people.md", "notes.md"} :
          ReadResource(id, file)
    \/ \E query \in Queries : SearchContexts(query)
    \/ \E id \in usedIds : GetContextDetails(id)
    \/ \E public_only \in BOOLEAN : ListContextsTool(public_only)
    \/ \E id \in usedIds : GetContextFiles(id)

SpecRead == InitLinked /\ [][NextRead]_vars

----------------------------------------------------------------------------
(* Publishing: the requests of create_pull_request answered in any order,   *)
(* while the owner adds and removes files and deletes the context           *)

NextPublish ==
    \/ \E user \in Users, id \in usedIds : CreatePullRequest(user, id)
    \/ \E p \in publishing, outcome \in Outcomes :
          PublishInfoRepoResponse(p, outcome)
    \/ \E p \in publishing, outcome \in Outcomes :
          PublishInfoLanguagesResponse(p, outcome)
    \/ \E p \in publishing, outcome \in Outcomes :
          PublishRepoResponse(p, outcome)
    \/ \E p \in publishing, outcome \in Outcomes, k \in {0, NoTick} :
          PublishRefResponse(p, outcome, k)
    \/ \E p \in publishing, outcome \in Outcomes :
          PublishCreateRefResponse(p, outcome)
    \/ \E p \in publishing, outcome \in Outcomes :
          PublishPutResponse(p, outcome)
    \/ \E p \in publishing, outcome \in Outcomes, message \in Messages :
          PublishPullResponse(p, outcome, message)
    \/ \E id \in usedIds :
          CreateContextFile(1, id, "notes.md", "custom", << <<"x">> >>, NoTick)
    \/ \E id \in usedIds, name \in {"people.md", "guidelines.md"} :
          DeleteContextFile(1, id, name, NoTick)
    \/ \E id \in usedIds : DeleteContext(1, id)

SpecPublish == InitTrimmed /\ [][NextPublish]_vars

\* the upstream answers the call that publish request n awaits
Responds(n) ==
    \E p \in publishing :
        /\ p.n = n
        /\ \E outcome \in Outcomes :
              \/ PublishInfoRepoResponse(p, outcome)
              \/ PublishInfoLanguagesResponse(p, outcome)
              \/ PublishRepoResponse(p, outcome)
              \/ \E k \in {0, NoTick} : PublishRefResponse(p, outcome, k)
              \/ PublishCreateRefResponse(p, outcome)
              \/ PublishPutResponse(p, outcome)
              \/ \E message \in Messages : PublishPullResponse(p, outcome, message)

\* the same requests with an upstream that answers every call in the end:
\* httpx returns or raises, the event loop resumes the handler
SpecPublishAnswered ==
    SpecPublish /\ \A n \in 1..MaxRequests : WF_vars(Responds(n))

----------------------------------------------------------------------------
(* The file collection and the owner's gate, under Spec *)

\* C1: in every reachable state of the store, whatever files were added,
\* updated, removed or generated and whatever contributors were toggled, no
\* context's files collection holds two entries with the same name.
C1_FileNamesUnique ==
    \A id \in DOMAIN contexts :
        \A i, j \in 1..Len(contexts[id].files) :
            contexts[id].files[i].name = contexts[id].files[j].name => i = j

\* a file was added under the name of a generated one and took its place
C1_Replaced ==
    /\ resp.op = "create_context_file"
    /\ resp.status = 200
    /\ resp.ctx \in DOMAIN contexts
    /\ HasFile(contexts[resp.ctx], "people.md")
    /\ FileNamed(contexts[resp.ctx], "people.md").content \in CustomContents
    /\ Len(contexts[resp.ctx].files) = 4

MutatingOps ==
    {"update_context", "delete_context", "create_context_file",
     "update_context_file", "delete_context_file", "toggle_contributor"}

\* C4: every mutating request (update or delete the context, add, update or
\* delete a file, toggle a contributor) sent by an authenticated user who is
\* not the owner of the context is answered 403 Forbidden, public or private
\* the context, and leaves the context map and the persisted store unchanged.
C4_NonOwnerForbidden ==
    [][(/\ resp'.n = nreq + 1
        /\ nreq' = nreq + 1
        /\ resp'.op \in MutatingOps
        /\ resp'.user \in Users
        /\ resp'.ctx \in DOMAIN contexts
        /\ resp'.user # contexts[resp'.ctx].owner_id)
       => (/\ resp'.status = 403
           /\ contexts' = contexts
           /\ disk' = disk)]_vars

\* a user who is not the owner asked to toggle a contributor of a public
\* context and was refused
C4_Refused ==
    /\ resp.op = "toggle_contributor"
    /\ resp.status = 403
    /\ resp.ctx \in DOMAIN contexts
    /\ resp.user # contexts[resp.ctx].owner_id
    /\ contexts[resp.ctx].is_public

----------------------------------------------------------------------------
(* Creation, under SpecCreate *)

\* C2: in every reachable state, for every owner and every repository url, at
\* most one context of that owner is linked to a repository of that url,
\* whatever the interleaving of the create requests at their upstream calls.
C2_OneLinkPerOwnerAndUrl ==
    \A i, j \in DOMAIN contexts :
        (/\ contexts[i].owner_id = contexts[j].owner_id
         /\ Linked(contexts[i])
         /\ Linked(contexts[j])
         /\ contexts[i].github_repo[1].url = contexts[j].github_repo[1].url)
        => i = j

\* C10: the context create_context returns has an id no earlier context had,
\* created_at equal to updated_at, no files, no contributors, no repository
\* link, and the is_public of the request.
C10_FreshContext ==
    \A i \in 1..Len(created) :
        LET c == created[i].value IN
        /\ c.id \notin created[i].earlier
        /\ c.created_at = c.updated_at
        /\ c.files = <<>>
        /\ c.contributors = <<>>
        /\ c.github_repo = NoRepo
        /\ c.is_public = created[i].request.is_public

----------------------------------------------------------------------------
(* Visibility, under SpecRead *)

\* C3: a private context is visible only to its owner: no response of the
\* reading handlers of the HTTP interface and no response of the tools and
\* resources of the adapter carries the name, the metadata or the file
\* content of a context with is_public false to anyone but its owner.
C3_PrivateOnlyToOwner ==
    \A id \in resp.shows :
        id \in DOMAIN contexts =>
            contexts[id].is_public \/ resp.user = contexts[id].owner_id

----------------------------------------------------------------------------
(* Publishing, under SpecPublish *)

InFlight == {p.n : p \in publishing}

BranchCalls == {"create_ref", "put_file", "create_pr"}

Failed == {"status", "error"}

\* request n ended, and with an error if its response is still the last one
EndedInError(n) ==
    /\ n \notin InFlight
    /\ resp.n = n => resp.status = 500 /\ resp.detail # <<"pr_url">>

\* C5: when a read of the linked repository's metadata is answered with a
\* status other than success or fails in transport, the publish fails and it
\* never issues a branch-creation, a file-write or a pull-request call.
C5_FailedReadStopsPublish ==
    \A n \in DOMAIN calls :
        \A i \in 1..Len(calls[n]) :
            (calls[n][i].call = "get_repo" /\ calls[n][i].answer \in Failed)
            => /\ EndedInError(n)
               /\ \A j \in 1..Len(calls[n]) : calls[n][j].call \notin BranchCalls

\* the read of create_context_pr was answered 404 and the publish ended there
C5_ReadRefused ==
    \E n \in DOMAIN calls :
        /\ Len(calls[n]) = 3
        /\ calls[n][3].call = "get_repo"
        /\ calls[n][3].answer = "status"
        /\ resp.n = n
        /\ resp.status = 500

\* C6: the branch-creation call is issued only after the repository (its
\* default branch) and the reference of that branch (its tip) were both read
\* with success; when the branch is not created the publish fails and issues
\* no file-write and no pull-request call.
C6_BranchAfterReads ==
    \A n \in DOMAIN calls :
        \A i \in 1..Len(calls[n]) :
            calls[n][i].call = "create_ref"
            => /\ i > 2
               /\ calls[n][i - 2].call = "get_repo"
               /\ calls[n][i - 2].answer = "ok"
               /\ calls[n][i - 1].call = "get_ref"
               /\ calls[n][i - 1].answer = "ok"
               /\ calls[n][i].answer \in Failed
                  => EndedInError(n) /\ i = Len(calls[n])

\* the upstream refused to create the branch and the publish ended there
C6_BranchRefused ==
    \E n \in DOMAIN calls :
        /\ calls[n][Len(calls[n])].call = "create_ref"
        /\ calls[n][Len(calls[n])].answer = "status"
        /\ resp.n = n
        /\ resp.status = 500

\* the paths of the writes request n has issued, in the order of the calls
RECURSIVE Written(_)
Written(log) ==
    IF log = <<>> THEN <<>>
    ELSE LET rest == Written(Tail(log))
         IN IF Head(log).call = "put_file" THEN <<Head(log).path>> \o rest
            ELSE rest

\* C7: once the branch is created, one write to .context/<name> is attempted
\* for every file of the context, in the order of the collection; a write
\* that fails, by its status or in transport, is followed by the next call;
\* the pull-request call follows the last write even when writes failed.
C7_EveryFileWritten ==
    /\ \A p \in publishing :
          p.pc \in {"put", "pr"}
          => /\ Written(calls[p.n]) =
                    [i \in 1..Min(p.done + 1, Len(p.todo)) |-> p.todo[i].path]
             /\ p.pc = "pr" => calls[p.n][Len(calls[p.n])].call = "create_pr"
    /\ \A n \in DOMAIN calls :
          \A i \in 1..Len(calls[n]) :
              (calls[n][i].call = "put_file" /\ calls[n][i].answer \in Failed)
              => i < Len(calls[n])

\* C8: when the pull-request call fails the publish fails with an error that
\* carries the upstream's message when there is one, no url is returned, no
\* further call is issued, and the branch and the files written to it remain
\* in the external repository.
C8_FailedPullRequest ==
    \A n \in DOMAIN calls :
        \A i \in 1..Len(calls[n]) :
            (calls[n][i].call = "create_pr" /\ calls[n][i].answer \in Failed)
            => /\ i = Len(calls[n])
               /\ EndedInError(n)
               /\ (resp.n = n /\ calls[n][i].answer = "status")
                  => resp.detail = PullRequestError(calls[n][i].message)
               /\ calls[n][i].branch \in remote.branches
               /\ \A j \in 1..i :
                     (calls[n][j].call = "put_file" /\ calls[n][j].answer = "ok")
                     => \E f \in remote.files :
                           f[1] = calls[n][i].branch /\ f[2] = calls[n][j].path

\* the upstream refused the pull request with a message after a file was
\* written
C8_PullRefused ==
    \E n \in DOMAIN calls :
        /\ calls[n][Len(calls[n])].call = "create_pr"
        /\ calls[n][Len(calls[n])].answer = "status"
        /\ calls[n][Len(calls[n])].message = "Validation Failed"
        /\ resp.n = n
        /\ \E j \in 1..Len(calls[n]) :
              calls[n][j].call = "put_file" /\ calls[n][j].answer = "ok"

\* C9: any two publishes of the same context name their branches
\* differently, so that no publish is refused its branch for a name taken.
C9_BranchNamesDistinct ==
    \A n, m \in DOMAIN calls :
        \A i \in 1..Len(calls[n]), j \in 1..Len(calls[m]) :
            (/\ n # m
             /\ calls[n][i].call = "create_ref"
             /\ calls[m][j].call = "create_ref"
             /\ calls[n][i].ctx = calls[m][j].ctx)
            => calls[n][i].branch # calls[m][j].branch

----------------------------------------------------------------------------
(* The duplicate link, under SpecCreate *)

\* the record of the context create_context has just returned, if any
Returned == created'[Len(created')]

----------------------------------------------------------------------------
(* Timestamps, under Spec *)

\* the context changed in something other than its timestamps
Changed(a, b) ==
    \/ a.name # b.name
    \/ a.description # b.description
    \/ a.is_public # b.is_public
    \/ a.github_repo # b.github_repo
    \/ a.contributors # b.contributors
    \/ a.files # b.files

\* C12: every operation that changes the name, the description, the
\* visibility, the repository link, the contributors (the selected flag of
\* one of them included) or the files of a context leaves the context's
\* updated_at at the time the operation ends.
C12_MutationBumps ==
    [][\A id \in DOMAIN contexts \cap DOMAIN contexts' :
          Changed(contexts[id], contexts'[id])
          => contexts'[id].updated_at = now']_vars

\* C13: in every reachable state every context and every file of a context
\* has updated_at at or after created_at, the clock never going backwards.
C13_UpdatedNotBeforeCreated ==
    \A id \in DOMAIN contexts :
        /\ contexts[id].updated_at >= contexts[id].created_at
        /\ \A i \in 1..Len(contexts[id].files) :
              contexts[id].files[i].updated_at >= contexts[id].files[i].created_at

\* the clock ticked between the two readings of a new file, in a context
\* modified after the tick
C13_TickBetweenReads ==
    \E id \in DOMAIN contexts :
        /\ contexts[id].updated_at > contexts[id].created_at
        /\ \E i \in 1..Len(contexts[id].files) :
              contexts[id].files[i].updated_at > contexts[id].files[i].created_at

----------------------------------------------------------------------------
(* The operations on the files of a context, under Spec: each is applied to *)
(* every context of every reachable state, with every input                 *)

\* what three consecutive readings of the clock may return from now on
Readings ==
    {t \in [1..3 -> now..(now + 1)] : t[1] <= t[2] /\ t[2] <= t[3]}

Last(s) == s[Len(s)]

Front(s) == SubSeq(s, 1, Len(s) - 1)

Others(c, name) == SelectSeq(c.files, LAMBDA f : f.name # name)

\* C14: add_file_to_context with the name of a file of the context leaves
\* the number of files as it was, puts the file with the new content and the
\* new type last, keeps every other file as it was and in the same relative
\* order, and bumps the updated_at of that file and of the context.
C14_AddFileReplaces ==
    \A id \in DOMAIN contexts :
        \A name \in FileNames(contexts[id]), file_type \in FileTypes,
           content \in CustomContents, t \in Readings :
            LET c == contexts[id]
                d == AddFile(c, name, file_type, content, t[1], t[2], t[3])
            IN /\ Len(d.files) = Len(c.files)
               /\ Last(d.files).name = name
               /\ Last(d.files).content = content
               /\ Last(d.files).file_type = file_type
               /\ Front(d.files) = Others(c, name)
               /\ Last(d.files).updated_at = t[2]
               /\ Last(d.files).updated_at >= FileNamed(c, name).updated_at
               /\ d.updated_at = t[3]
               /\ d.updated_at >= c.updated_at
               /\ [d EXCEPT !.files = c.files, !.updated_at = c.updated_at] = c

\* a file was added under the name of the third of four files and is now the
\* last of four, and the clock has moved since the others were written
C14_ReplacedLast ==
    /\ resp.op = "create_context_file"
    /\ resp.status = 200
    /\ resp.ctx \in DOMAIN contexts
    /\ Len(contexts[resp.ctx].files) = 4
    /\ Last(contexts[resp.ctx].files).name = "people.md"
    /\ Last(contexts[resp.ctx].files).content \in CustomContents
    /\ contexts[resp.ctx].files[3].name = "guidelines.md"
    /\ contexts[resp.ctx].updated_at > contexts[resp.ctx].files[1].updated_at

AllFileNames == {"stack.md", "business.md", "people.md", "guidelines.md",
                 "notes.md"}

\* C15: remove_file_from_context returns false and leaves the store as it
\* was, time stamps and files included, when there is no context of that id
\* or the context has no file of that name; when the file is there it returns
\* true and the files of the context are the others, unchanged and in order.
\* delete_context_file answers with that value and changes nothing else.
C15_RemoveFile ==
    [][/\ \A id \in ContextIds, name \in AllFileNames, t \in now..(now + 1) :
             LET cs == RemoveFileFromContext(contexts, id, name, t)
             IN IF id \in DOMAIN contexts /\ HasFile(contexts[id], name)
                THEN /\ Removes(contexts, id, name)
                     /\ DOMAIN cs = DOMAIN contexts
                     /\ \A i \in DOMAIN cs \ {id} : cs[i] = contexts[i]
                     /\ cs[id].files = Others(contexts[id], name)
                     /\ Len(cs[id].files) = Len(contexts[id].files) - 1
                     /\ [cs[id] EXCEPT !.files = contexts[id].files,
                                       !.updated_at = contexts[id].updated_at]
                        = contexts[id]
                ELSE ~Removes(contexts, id, name) /\ cs = contexts
       /\ (resp'.n # resp.n /\ resp'.op = "delete_context_file"
           /\ resp'.status = 200)
          => IF resp'.detail = Success(FALSE)
             THEN UNCHANGED <<contexts, disk, usedIds, now, created>>
             ELSE /\ resp'.detail = Success(TRUE)
                  /\ \E name \in FileNames(contexts[resp'.ctx]) :
                        contexts' =
                            [contexts EXCEPT ![resp'.ctx] =
                                [@ EXCEPT !.files =
                                              Others(contexts[resp'.ctx], name),
                                          !.updated_at = now']]
                  /\ UNCHANGED <<usedIds, created>>]_vars

\* a file was removed, and then the removal of a file the context does not
\* have was answered with false
C15_NothingToRemove ==
    /\ resp.op = "delete_context_file"
    /\ resp.detail = Success(FALSE)
    /\ resp.ctx \in DOMAIN contexts
    /\ Len(contexts[resp.ctx].files) = 3
    /\ contexts[resp.ctx].updated_at > contexts[resp.ctx].created_at

\* a context toggled twice for the same login, at two later times
ToggledTwice(c, login, t) ==
    ToggleSelection(ToggleSelection(c, login, t[1], t[1]), login, t[2], t[3])

\* C16: for every context and every login among its contributors, toggling
\* the contributor twice leaves every selected flag as it was; people.md,
\* when the context has one, then holds the text generated from the
\* contributors, which is the text it held before the first toggle if that
\* text was the generated one.
C16_ToggleTwice ==
    \A id \in DOMAIN contexts :
        \A login \in Logins(contexts[id]), t \in Readings :
            LET c == contexts[id]
                d == ToggledTwice(c, login, t)
            IN /\ d.contributors = c.contributors
               /\ FileNames(d) = FileNames(c)
               /\ HasFile(c, "people.md") =>
                     /\ FileNamed(d, "people.md").content
                        = GeneratePeopleContent(c)
                     /\ FileNamed(c, "people.md").content
                        = GeneratePeopleContent(c)
                        => FileNamed(d, "people.md").content
                           = FileNamed(c, "people.md").content

\* the second request toggled back the contributor the first had toggled:
\* the flags and people.md are those of the start
C16_ToggledBack ==
    /\ resp.n = 2
    /\ resp.op = "toggle_contributor"
    /\ resp.status = 200
    /\ resp.ctx \in DOMAIN contexts
    /\ contexts[resp.ctx].contributors = <<Carol, Dave>>
    /\ HasFile(contexts[resp.ctx], "people.md")
    /\ FileNamed(contexts[resp.ctx], "people.md").content
       = GeneratePeopleContent(contexts[resp.ctx])
    /\ contexts[resp.ctx].updated_at > contexts[resp.ctx].created_at

\* C16 as the specification states it: after two toggles people.md holds
\* exactly the text it held before the first, whatever that text was
C16_SameDocument ==
    \A id \in DOMAIN contexts :
        \A login \in Logins(contexts[id]), t \in Readings :
            LET c == contexts[id]
                d == ToggledTwice(c, login, t)
            IN /\ d.contributors = c.contributors
               /\ HasFile(c, "people.md") =>
                     FileNamed(d, "people.md").content
                     = FileNamed(c, "people.md").content

\* what a toggle leaves alone in a context: everything but the contributors,
\* the content and updated_at of people.md and the updated_at of the context
ToggleFrame(c, d) ==
    /\ [d EXCEPT !.contributors = c.contributors, !.files = c.files,
                 !.updated_at = c.updated_at] = c
    /\ Len(d.files) = Len(c.files)
    /\ \A i \in 1..Len(c.files) :
          IF c.files[i].name = "people.md"
          THEN [d.files[i] EXCEPT !.content = c.files[i].content,
                                  !.updated_at = c.files[i].updated_at]
               = c.files[i]
          ELSE d.files[i] = c.files[i]

\* C17: toggling a contributor changes the selected flag of that contributor
\* only, and besides it nothing but the content of people.md and the
\* updated_at of people.md and of the context: the files are the same files,
\* the other files keep their content, the other contributors their flag, and
\* the repository link, name, description, visibility and owner stay.  The
\* handler changes the store by exactly such a toggle.
C17_ToggleFrame ==
    [][/\ \A id \in DOMAIN contexts :
             \A login \in Logins(contexts[id]), t \in Readings :
                 LET c == contexts[id]
                     d == ToggleSelection(c, login, t[1], t[2])
                 IN /\ ToggleFrame(c, d)
                    /\ \E i \in 1..Len(c.contributors) :
                          /\ c.contributors[i].login = login
                          /\ d.contributors
                             = [c.contributors EXCEPT ![i].selected = ~@]
       /\ (resp'.n # resp.n /\ resp'.op = "toggle_contributor"
           /\ resp'.status = 200)
          => /\ \E login \in Logins(contexts[resp'.ctx]), t \in Readings :
                   contexts' =
                       [contexts EXCEPT ![resp'.ctx] =
                           ToggleSelection(@, login, t[1], t[2])]
             /\ ToggleFrame(contexts[resp'.ctx], contexts'[resp'.ctx])
             /\ UNCHANGED <<usedIds, created>>]_vars

\* one contributor of two was toggled after the clock moved: people.md was
\* written again and the other files were not
C17_OneToggled ==
    /\ resp.op = "toggle_contributor"
    /\ resp.status = 200
    /\ resp.ctx \in DOMAIN contexts
    /\ Len(contexts[resp.ctx].contributors) = 2
    /\ \E i \in 1..2 :
          /\ contexts[resp.ctx].contributors[i].selected
             # <<Carol, Dave>>[i].selected
          /\ contexts[resp.ctx].contributors[3 - i] = <<Carol, Dave>>[3 - i]
    /\ HasFile(contexts[resp.ctx], "people.md")
    /\ FileNamed(contexts[resp.ctx], "people.md").updated_at
       > FileNamed(contexts[resp.ctx], "stack.md").updated_at

\* the names generate_default_files writes, with their types, in its order
DefaultFiles ==
    << <<"stack.md", "stack">>, <<"business.md", "business">>,
       <<"people.md", "people">>, <<"guidelines.md", "guidelines">> >>

DefaultNames == {DefaultFiles[i][1] : i \in 1..Len(DefaultFiles)}

\* what generate_default_files writes under each name for a context
DefaultContent(c, gh, name) ==
    CASE name = "stack.md" -> GenerateStackContent(c)
      [] name = "business.md" -> GenerateBusinessContent(c)
      [] name = "people.md" -> GeneratePeopleContent(c)
      [] name = "guidelines.md" -> GenerateGuidelinesContent(c, gh)

Kept(c) == SelectSeq(c.files, LAMBDA f : f.name \notin DefaultNames)

\* C18: generate_default_files on a context that exists leaves it with
\* exactly one file of each of the four default names, of the type of the
\* name and with the content generated from the context, whatever file of
\* that name the context had; every other file of the context is kept
\* unchanged, and the context has no other file.
C18_DefaultFilesGenerated ==
    \A id \in DOMAIN contexts :
        \A gh \in BOOLEAN, k \in {0, 4, 8, NoTick} :
            LET c == contexts[id]
                d == GenerateDefaultFiles(c, gh, Reads(GenerateReads, k))
            IN /\ \A n \in 1..Len(DefaultFiles) :
                     LET name == DefaultFiles[n][1]
                     IN /\ Cardinality({i \in 1..Len(d.files) :
                                           d.files[i].name = name}) = 1
                        /\ FileNamed(d, name).file_type = DefaultFiles[n][2]
                        /\ FileNamed(d, name).content
                           = DefaultContent(c, gh, name)
               /\ Kept(d) = Kept(c)
               /\ Len(d.files) = Len(Kept(c)) + Len(DefaultFiles)
               /\ [d EXCEPT !.files = c.files, !.updated_at = c.updated_at] = c

\* a context with a file of another name and a people.md written by its
\* owner: generating the default files keeps the first as it is and
\* overwrites the second
C18_Regenerated ==
    \E id \in DOMAIN contexts :
        LET c == contexts[id]
            d == GenerateDefaultFiles(c, TRUE, Reads(GenerateReads, NoTick))
        IN /\ HasFile(c, "notes.md")
           /\ HasFile(c, "people.md")
           /\ FileNamed(c, "people.md").content \in CustomContents
           /\ Len(d.files) = 5
           /\ d.files[1] = FileNamed(c, "notes.md")
           /\ FileNamed(d, "people.md").content
              # FileNamed(c, "people.md").content

\* the lines of a text
Lines(text) == {text[i] : i \in 1..Len(text)}

\* lines 597-607: the headings of the four placeholder sections
PlaceholderSections ==
    {<<"## Code Style">>, <<"## Development Workflow">>,
     <<"## Testing Guidelines">>, <<"## Review Process">>}

\* lines 593-594: the heading written when a linked repository and a client
\* are given
ContributingSection == <<"## Contributing Guidelines">>

\* C19: the generated guidelines document has the four placeholder sections
\* (code style, workflow, testing, review) and no other exactly when the
\* context has no repository linked or no client is passed; for a context
\* with a repository linked and a client passed it has none of them and the
\* one section that points to CONTRIBUTING.md.  guidelines.md of a context as
\* create_context left it is the document generated with a client.
C19_GuidelinesSections ==
    \A id \in DOMAIN contexts :
        /\ \A gh \in BOOLEAN :
              LET text == GenerateGuidelinesContent(contexts[id], gh)
              IN IF Linked(contexts[id]) /\ gh
                 THEN /\ Lines(text) \cap PlaceholderSections = {}
                      /\ ContributingSection \in Lines(text)
                      /\ Len(text) = 5
                 ELSE /\ PlaceholderSections \subseteq Lines(text)
                      /\ ContributingSection \notin Lines(text)
                      /\ Len(text) = 13
        /\ HasFile(contexts[id], "guidelines.md")
           /\ FileNamed(contexts[id], "guidelines.md").file_type = "guidelines"
           => FileNamed(contexts[id], "guidelines.md").content
              = GenerateGuidelinesContent(contexts[id], TRUE)

\* two contexts left by create_context, one with a repository linked whose
\* guidelines.md points to CONTRIBUTING.md, one without whose guidelines.md
\* has the placeholder sections
C19_BothDocuments ==
    \E i, j \in DOMAIN contexts :
        /\ Linked(contexts[i])
        /\ HasFile(contexts[i], "guidelines.md")
        /\ ContributingSection
           \in Lines(FileNamed(contexts[i], "guidelines.md").content)
        /\ ~Linked(contexts[j])
        /\ HasFile(contexts[j], "guidelines.md")
        /\ PlaceholderSections
           \subseteq Lines(FileNamed(contexts[j], "guidelines.md").content)

\* C19 as the specification states it: the placeholder sections for every
\* context, linked or not, with a client or without
C19_AlwaysPlaceholders ==
    \A id \in DOMAIN contexts :
        \A gh \in BOOLEAN :
            PlaceholderSections
            \subseteq Lines(GenerateGuidelinesContent(contexts[id], gh))

\* C20: in every state the directory of each context of the store holds the
\* metadata of the context as it is in memory and, under files/, one
\* artifact for each file of the context, with the content of the file, and
\* no artifact for a file the context no longer has.
C20_DirectoryMirrorsContext ==
    \A id \in DOMAIN contexts :
        /\ id \in DOMAIN disk
        /\ disk[id].metadata = contexts[id]
        /\ DOMAIN disk[id].files = FileNames(contexts[id])
        /\ \A name \in FileNames(contexts[id]) :
              disk[id].files[name] = FileNamed(contexts[id], name).content

\* the ids of the contexts that were deleted
Gone == usedIds \ DOMAIN contexts

\* C21: delete_context on the id of a context returns true and removes the
\* context, files included, from the store and its directory from the disk,
\* the other contexts staying as they are; on another id it returns false
\* and changes nothing.  A deleted context never comes back: no lookup by
\* id, by owner or among the public contexts returns it, it has no
\* directory, and every request of a signed-in user on its id is answered
\* with 404.
C21_DeletedForGood ==
    [][/\ \A id \in ContextIds :
             IF Deletes(contexts, id)
             THEN /\ DOMAIN Del(contexts, id) = DOMAIN contexts \ {id}
                  /\ \A i \in DOMAIN contexts \ {id} :
                        Del(contexts, id)[i] = contexts[i]
                  /\ id \notin DOMAIN DeleteContextFiles(disk, id)
                  /\ \A i \in DOMAIN disk \ {id} :
                        DeleteContextFiles(disk, id)[i] = disk[i]
             ELSE Del(contexts, id) = contexts
       /\ (resp'.n # resp.n /\ resp'.op = "delete_context"
           /\ resp'.status = 200)
          => /\ resp'.detail = Success(TRUE)
             /\ resp'.ctx \in DOMAIN contexts
             /\ contexts' = Del(contexts, resp'.ctx)
             /\ disk' = DeleteContextFiles(disk, resp'.ctx)
             /\ resp'.ctx \notin DOMAIN disk'
       /\ \A id \in Gone :
             /\ id \notin DOMAIN contexts'
             /\ id \notin DOMAIN disk'
             /\ id \notin GetPublicContexts
             /\ \A u \in Users : id \notin GetUserContexts(u)
             /\ (resp'.n # resp.n /\ resp'.ctx = id /\ resp'.user # Anonymous)
                => /\ resp'.status = 404
                   /\ UNCHANGED <<contexts, disk, usedIds, now, created>>]_vars

\* a request of the owner on the id of a context deleted before was
\* answered with 404
C21_NotFoundLater ==
    /\ resp.op \in {"update_context", "create_context_file"}
    /\ resp.status = 404
    /\ resp.user = 1
    /\ resp.ctx \in Gone
    /\ resp.ctx \notin DOMAIN disk

\* a create_context request that was awaiting an answer ends in this step
Finishes(r) == r \in creating /\ \A q \in creating' : q.n # r.n

\* a context as create_context leaves it when nothing was fetched
Unlinked(c) ==
    /\ ~Linked(c)
    /\ c.contributors = <<>>
    /\ Len(c.files) = Len(DefaultFiles)
    /\ FileNames(c) = DefaultNames

\* C22: a create_context request with a repository url is answered with 200
\* whatever the repository answers.  If the url cannot be parsed, or the
\* repository or language request fails, the context, unless its owner
\* deleted it in between, has no repository, no contributors and the four
\* default files; if the repository was fetched and the contributors could
\* not be, the context is linked and has no contributors and the four
\* default files.
C22_FetchFailuresSwallowed ==
    [][/\ \A r \in creating :
             Finishes(r) =>
                /\ resp'.n = r.n
                /\ resp'.op = "create_context"
                /\ resp'.status = 200
                /\ r.id \in DOMAIN contexts
                   => /\ r.id \in DOMAIN contexts'
                      /\ FileNames(contexts'[r.id]) = DefaultNames
                      /\ Len(contexts'[r.id].files) = Len(DefaultFiles)
                      /\ r.pc \in {"repo", "languages"}
                         => Unlinked(contexts'[r.id])
                      /\ r.pc \in {"contributors", "user"}
                         => /\ Linked(contexts'[r.id])
                            /\ contexts'[r.id].contributors = <<>>
                               \/ /\ r.pc = "user"
                                  /\ Len(contexts'[r.id].contributors)
                                     = Len(r.listed)
                      /\ r.pc = "contributors"
                         => contexts'[r.id].contributors = <<>>
       /\ (Len(created') > Len(created) /\ resp'.n # resp.n
           /\ Truthy(Returned.request.github_repo_url))
          => /\ resp'.status = 200
             /\ resp'.ctx = Returned.value.id
             /\ Unlinked(contexts'[resp'.ctx])
       /\ (resp'.n # resp.n /\ resp'.op = "create_context")
          => resp'.status \in {200, 400}]_vars

\* a request with a url of a repository was answered with 200 after the
\* repository could not be fetched: its context has no link, no contributors
\* and the four default files
C22_UnlinkedAfterFailure ==
    /\ resp.op = "create_context"
    /\ resp.status = 200
    /\ resp.ctx \in DOMAIN contexts
    /\ Unlinked(contexts[resp.ctx])
    /\ \E i \in 1..Len(created) :
          /\ created[i].value.id = resp.ctx
          /\ Fetchable(created[i].request)

\* C22 as the specification states it: whenever the fetch fails the context
\* exists when the request is answered
C22_ContextExists ==
    [][\A r \in creating :
          Finishes(r) =>
             /\ resp'.status = 200
             /\ r.id \in DOMAIN contexts'
             /\ r.pc \in {"repo", "languages"} => Unlinked(contexts'[r.id])
             /\ r.pc = "contributors"
                => /\ Linked(contexts'[r.id])
                   /\ contexts'[r.id].contributors = <<>>]_vars

\* UpdateContextRequest: each field given or left out
AllUpdateRequests ==
    [name : {None, "my-ctx", ""}, description : {None, "more", ""},
     is_public : {None, "True", "False"}]

\* C23: update_context on a context changes the name, the description and
\* is_public where the request gives them and not where it leaves them out,
\* sets updated_at to the time of the call and changes nothing else: id,
\* owner, created_at, repository, files and contributors stay.  The handler
\* changes the store by exactly that and saves it, and for an id of no
\* context it answers 404 and changes nothing.
C23_UpdateFrame ==
    [][/\ \A id \in DOMAIN contexts :
             \A request \in AllUpdateRequests, t \in now..(now + 1) :
                 LET c == contexts[id]
                     d == UpdateFields(c, request, t)
                 IN /\ d.name = (IF request.name = None THEN c.name
                                 ELSE request.name)
                    /\ d.description = (IF request.description = None
                                        THEN c.description
                                        ELSE request.description)
                    /\ d.is_public = (IF request.is_public = None
                                      THEN c.is_public
                                      ELSE request.is_public = "True")
                    /\ d.updated_at = t
                    /\ [d EXCEPT !.name = c.name,
                                 !.description = c.description,
                                 !.is_public = c.is_public,
                                 !.updated_at = c.updated_at] = c
       /\ (resp'.n # resp.n /\ resp'.op = "update_context")
          => \/ /\ resp'.status = 200
                /\ resp'.ctx \in DOMAIN contexts
                /\ \E request \in AllUpdateRequests :
                      contexts' = [contexts EXCEPT ![resp'.ctx] =
                                      UpdateFields(@, request, now')]
                /\ disk'[resp'.ctx].metadata = contexts'[resp'.ctx]
                /\ UNCHANGED <<usedIds, created>>
             \/ /\ resp'.status \in {401, 403, 404}
                /\ resp'.status = 404 <=> (resp'.user # Anonymous
                                           /\ resp'.ctx \notin DOMAIN contexts)
                /\ UNCHANGED <<contexts, disk, usedIds, now, created>>]_vars

\* the owner renamed a linked context after the clock moved: the files, the
\* repository and the contributors are those of the start
C23_Renamed ==
    /\ resp.op = "update_context"
    /\ resp.status = 200
    /\ resp.ctx \in DOMAIN contexts
    /\ contexts[resp.ctx].name = "my-ctx"
    /\ contexts[resp.ctx].updated_at > contexts[resp.ctx].created_at
    /\ \E is_public \in BOOLEAN :
          [contexts[resp.ctx] EXCEPT !.name = LinkedContext(is_public).name,
                                     !.updated_at = 0]
          = LinkedContext(is_public)

\* C24: update_context_file returns None and leaves the store as it was
\* when there is no context of that id or the context has no file of that
\* name; otherwise it changes the content of that file, which keeps its
\* place, name, type and created_at, sets updated_at of the file and of the
\* context to the time of the call, and changes nothing else.  The handler
\* answers 404 for None and changes the store by exactly that otherwise.
C24_UpdateFile ==
    [][/\ \A id \in ContextIds, name \in AllFileNames,
             content \in CustomContents, t \in Readings :
             LET cs == UpdateFileOfContext(contexts, id, name, content,
                                           t[1], t[2])
             IN IF id \in DOMAIN contexts /\ HasFile(contexts[id], name)
                THEN /\ Updates(contexts, id, name)
                     /\ DOMAIN cs = DOMAIN contexts
                     /\ \A i \in DOMAIN cs \ {id} : cs[i] = contexts[i]
                     /\ \E i \in 1..Len(contexts[id].files) :
                           /\ contexts[id].files[i].name = name
                           /\ cs[id].files
                              = [contexts[id].files EXCEPT
                                    ![i].content = content,
                                    ![i].updated_at = t[1]]
                           /\ t[1] >= contexts[id].files[i].updated_at
                     /\ cs[id].updated_at = t[2]
                     /\ t[2] >= contexts[id].updated_at
                     /\ [cs[id] EXCEPT !.files = contexts[id].files,
                                       !.updated_at = contexts[id].updated_at]
                        = contexts[id]
                ELSE ~Updates(contexts, id, name) /\ cs = contexts
       /\ (resp'.n # resp.n /\ resp'.op = "update_context_file")
          => \/ /\ resp'.status = 200
                /\ \E name \in FileNames(contexts[resp'.ctx]),
                      content \in CustomContents, t \in Readings :
                      contexts' = UpdateFileOfContext(contexts, resp'.ctx, name,
                                                      content, t[1], t[2])
                /\ contexts'[resp'.ctx].updated_at = now'
                /\ UNCHANGED <<usedIds, created>>
             \/ /\ resp'.status \in {401, 403, 404}
                /\ UNCHANGED <<contexts, disk, usedIds, now, created>>]_vars

\* people.md was given a new content after the clock moved and is still the
\* third of four files, made when the context was
C24_UpdatedInPlace ==
    /\ resp.op = "update_context_file"
    /\ resp.status = 200
    /\ resp.ctx \in DOMAIN contexts
    /\ Len(contexts[resp.ctx].files) = 4
    /\ contexts[resp.ctx].files[3].name = "people.md"
    /\ contexts[resp.ctx].files[3].file_type = "people"
    /\ contexts[resp.ctx].files[3].content \in CustomContents
    /\ contexts[resp.ctx].files[3].updated_at
       > contexts[resp.ctx].files[3].created_at

\* the languages in the order of the alphabet, whatever the case
AlphabeticalOrder == <<"Go", "jq", "Python">>

Alphabetical(langs) == SelectSeq(AlphabeticalOrder, LAMBDA l : l \in langs)

\* line 497: the bullet of a language
Bullet(lang) == <<"- **", lang, "**">>

\* lines 492 and 500-507: what stack.md holds around the languages
StackTitle == << <<"# Technology Stack">>, <<"">> >>

StackPlaceholders ==
    << <<"## Frameworks & Libraries">>,
       <<"_Add frameworks and libraries used in this project_">>, <<"">>,
       <<"## Tools & Services">>,
       <<"_Add development tools, CI/CD, and services used_">>, <<"">>,
       <<"## Architecture">>,
       <<"_Describe the high-level architecture of the project_">> >>

\* the languages of the repository of a context, none without a repository
LanguagesOf(c) == IF Linked(c) THEN c.github_repo[1].languages ELSE {}

\* C25: the stack document generated for a context is the title, then, when
\* the context has a repository with languages, the section of the
\* languages with one bullet for each language, once, in ascending
\* alphabetical order, then the three placeholder sections; without a
\* repository or without languages it has no section of languages.
C25_StackLanguages ==
    \A id \in DOMAIN contexts :
        LET c == contexts[id]
            langs == Alphabetical(LanguagesOf(c))
        IN GenerateStackContent(c)
           = StackTitle
             \o (IF LanguagesOf(c) = {} THEN <<>>
                 ELSE << <<"## Languages">> >>
                      \o [i \in 1..Len(langs) |-> Bullet(langs[i])]
                      \o << <<"">> >>)
             \o StackPlaceholders

\* contributors as the upstream may describe them and the owner select them
Carols ==
    {[Carol EXCEPT !.selected = s, !.name = n, !.bio = n, !.pronouns = v,
                   !.hireable = h] :
        s \in BOOLEAN, n \in {None, "", "Carol"}, v \in {None, "she/her"},
        h \in {None, "True", "False"}}

Daves ==
    {[Dave EXCEPT !.selected = s, !.website = w, !.email = e,
                  !.company = e, !.location = w, !.twitter_username = e] :
        s \in BOOLEAN, w \in {None, "https://d.example"},
        e \in {None, "", "dave"}}

\* lists of them: none, one, or two in either order
ContributorInputs ==
    LET ps == {p \in Carols : p.pronouns = None /\ p.hireable = None}
        qs == {q \in Daves : q.website = None /\ q.email = None}
    IN {<<>>} \cup {<<p>> : p \in ps \cup qs}
       \cup {<<p, q>> : p \in ps, q \in qs}
       \cup {<<q, p>> : p \in ps, q \in qs}

\* a line of a text starts with that label
HasLine(text, label) == \E i \in 1..Len(text) : text[i][1] = label

\* the headings of the subsections of a text, in its order
Headings(text) == SelectSeq(text, LAMBDA l : l[1] = "### ")

\* the labels of the lines of the optional fields that are strings
FieldLabels ==
    [pronouns |-> "- **Pronouns**: ", bio |-> "- **Bio**: ",
     company |-> "- **Company**: ", location |-> "- **Location**: ",
     website |-> "- **Website**: [", email |-> "- **Email**: ",
     twitter_username |-> "- **Twitter**: [@"]

HireableLabel == "- **Available for hire**: Yes"

Selected(ps) == SelectSeq(ps, LAMBDA p : p.selected)

\* the people document of a context with those contributors
PeopleOf(c, ps) == GeneratePeopleContent([c EXCEPT !.contributors = ps])

\* C26: the people document has one subsection for each selected
\* contributor and none for another, in the order of the contributors, each
\* headed by the name or, when the name is None or empty, by the login.  The
\* subsection has the line of pronouns, bio, company, location, website,
\* email or twitter exactly when that field is not None and not empty, and
\* the line of hireable exactly when hireable is true: a hireable of false
\* gives no line.
C26_PeopleSections ==
    /\ \A id \in DOMAIN contexts :
          /\ \A ps \in ContributorInputs :
                /\ Headings(PeopleOf(contexts[id], ps))
                   = [i \in 1..Len(Selected(ps)) |->
                        <<"### ", IF Selected(ps)[i].name \in {None, ""}
                                  THEN Selected(ps)[i].login
                                  ELSE Selected(ps)[i].name>>]
                /\ \A i \in 1..Len(ps) :
                      ps[i].selected
                      <=> \E l \in Lines(PeopleOf(contexts[id], ps)) :
                             /\ Len(l) > 1
                             /\ l[1] = "- **GitHub**: [@"
                             /\ l[2] = ps[i].login
          /\ Headings(GeneratePeopleContent(contexts[id]))
             = [i \in 1..Len(Selected(contexts[id].contributors)) |->
                  Head(ContributorSection(Selected(contexts[id].contributors)[i]))]
    /\ \A p \in Carols \cup Daves :
          /\ \A f \in DOMAIN FieldLabels :
                HasLine(ContributorSection(p), FieldLabels[f])
                <=> p[f] \notin {None, ""}
          /\ HasLine(ContributorSection(p), HireableLabel)
             <=> p.hireable = "True"

\* the owner selected the first of two contributors, who has a name and a
\* hireable of false: people.md has her subsection, without the line of
\* hireable, and none for the other
C26_OneSelected ==
    \E id \in DOMAIN contexts :
        /\ Len(contexts[id].contributors) = 2
        /\ contexts[id].contributors[1].selected
        /\ contexts[id].contributors[1].hireable = "False"
        /\ ~contexts[id].contributors[2].selected
        /\ HasFile(contexts[id], "people.md")
        /\ Headings(FileNamed(contexts[id], "people.md").content)
           = << <<"### ", "Carol">> >>
        /\ ~HasLine(FileNamed(contexts[id], "people.md").content, HireableLabel)

\* C26 as the specification states it: in the subsection of a selected
\* contributor the line of every optional field, hireable included, is
\* there exactly when the field is not empty
C26_LineForEveryField ==
    \A id \in DOMAIN contexts :
        \A i \in 1..Len(contexts[id].contributors) :
            LET p == contexts[id].contributors[i]
            IN p.selected =>
                  /\ \A f \in DOMAIN FieldLabels :
                        HasLine(ContributorSection(p), FieldLabels[f])
                        <=> p[f] \notin {None, ""}
                  /\ HasLine(ContributorSection(p), HireableLabel)
                     <=> p.hireable # None

\* C27: in every state get_user_contexts(o) is the set of the contexts of
\* the store owned by o, private ones included and no other, and
\* get_public_contexts() is the set of the public contexts of the store,
\* whoever owns them; the profile page shows the first and the list of an
\* anonymous reader the second.  A public context of owner 1 is among the
\* public contexts and not among the contexts of owner 2.
C27_ListsExact ==
    /\ \A id \in ContextIds, o \in Users :
          id \in GetUserContexts(o)
          <=> (id \in DOMAIN contexts /\ contexts[id].owner_id = o)
    /\ \A id \in ContextIds :
          id \in GetPublicContexts
          <=> (id \in DOMAIN contexts /\ contexts[id].is_public)
    /\ \A id \in DOMAIN contexts :
          (contexts[id].owner_id = 1 /\ contexts[id].is_public)
          => id \in GetPublicContexts /\ id \notin GetUserContexts(2)
    /\ resp.op = "profile"
       => resp.shows = {id \in DOMAIN contexts :
                           contexts[id].owner_id = resp.user}
    /\ (resp.op = "list_contexts" /\ resp.user = Anonymous)
       => resp.shows = {id \in DOMAIN contexts : contexts[id].is_public}

\* the profile page of owner 2 shows a private context of theirs and not the
\* public context of owner 1
C27_ProfileOfOther ==
    /\ resp.op = "profile"
    /\ resp.user = 2
    /\ \E id \in resp.shows : ~contexts[id].is_public
    /\ \E id \in DOMAIN contexts :
          /\ contexts[id].owner_id = 1
          /\ contexts[id].is_public
          /\ id \notin resp.shows
          /\ id \in GetPublicContexts

\* C28: the paths the body of a pull request lists are the paths of the
\* writes to the branch that the same publish attempted, in the same order,
\* whatever files were added to the context or removed from it while the
\* publish awaited the upstream.
C28_BodyListsWrittenPaths ==
    \A n \in DOMAIN calls :
        \A i \in 1..Len(calls[n]) :
            calls[n][i].call = "create_pr"
            => calls[n][i].paths = Written(calls[n])

\* the calls of that name in a log that were answered with success
Succeeded(log, call) ==
    {i \in 1..Len(log) : log[i].call = call /\ log[i].answer = "ok"}

\* the repository read, the read of the tip of the branch, the creation of
\* the branch and the creation of the pull request of create_context_pr all
\* succeeded; the first get_repo of a log is that of get_repo_info
FourSucceeded(log) ==
    /\ Cardinality(Succeeded(log, "get_repo")) = 2
    /\ Succeeded(log, "get_ref") # {}
    /\ Succeeded(log, "create_ref") # {}
    /\ Succeeded(log, "create_pr") # {}

Publishing(n) == \E p \in publishing : p.n = n

\* C29: with an upstream that answers every call in the end, every publish
\* request comes to its end; it ends with the url of the pull request or
\* with an error, and with the url exactly when the repository read, the
\* read of the tip of the branch, the creation of the branch and the
\* creation of the pull request all succeeded, the answers to the writes of
\* the files playing no part in that.
C29_PublishCompletes ==
    /\ \A n \in 1..MaxRequests : Publishing(n) ~> ~Publishing(n)
    /\ [][\A n \in 1..MaxRequests :
             (Publishing(n) /\ ~Publishing(n)')
             => /\ resp'.n = n
                /\ resp'.op = "create_pull_request"
                /\ \/ resp'.status = 200 /\ resp'.detail = <<"pr_url">>
                   \/ resp'.status = 500 /\ resp'.detail # <<"pr_url">>
                /\ resp'.detail = <<"pr_url">> <=> FourSucceeded(calls'[n])]_vars

\* a publish ended with the url of the pull request although the upstream
\* refused the write of a file
C29_UrlDespiteFailedWrite ==
    /\ resp.op = "create_pull_request"
    /\ resp.status = 200
    /\ resp.detail = <<"pr_url">>
    /\ FourSucceeded(calls[resp.n])
    /\ \E i \in 1..Len(calls[resp.n]) :
          /\ calls[resp.n][i].call = "put_file"
          /\ calls[resp.n][i].answer = "status"

\* C30: in every step, for every context that is in the store before and
\* after it, updated_at does not decrease and created_at, id, owner_id and
\* owner_login are the same; the clock does not go backwards, and no time
\* stamp of a context is ahead of it.
C30_MonotoneStamps ==
    [][/\ now' >= now
       /\ \A id \in DOMAIN contexts \cap DOMAIN contexts' :
             /\ contexts'[id].updated_at >= contexts[id].updated_at
             /\ contexts'[id].updated_at <= now'
             /\ contexts'[id].created_at = contexts[id].created_at
             /\ contexts'[id].id = id
             /\ contexts'[id].owner_id = contexts[id].owner_id
             /\ contexts'[id].owner_login = contexts[id].owner_login]_vars

\* two requests of its owner each moved updated_at of a context made at 0
C30_BumpedTwice ==
    /\ resp.n = 2
    /\ resp.status = 200
    /\ resp.ctx \in DOMAIN contexts
    /\ contexts[resp.ctx].created_at = 0
    /\ contexts[resp.ctx].updated_at = 2
    /\ contexts[resp.ctx].owner_id = 1
    /\ contexts[resp.ctx].owner_login = Login(1)

====
